---- MODULE Spec2Model ----
(***************************************************************************)
(* Model of the portfolio dashboard: the Portfolio class of portfolio.py   *)
(* (refresh_prices, _build_assets, _calculate_metrics, ...), the snapshot  *)
(* store of supabase_client.py and the handlers of dashboard.py that call  *)
(* them.                                                                   *)
(*                                                                         *)
(* Python floats are modelled as exact rationals <<n, d>> in lowest terms  *)
(* with d > 0; Python's None is the pair NULL == <<0, 0>>.                 *)
(***************************************************************************)
EXTENDS Integers, Sequences, FiniteSets, TLC

(***************************************************************************)
(* Rational arithmetic                                                     *)
(***************************************************************************)
Abs(x) == IF x < 0 THEN -x ELSE x

RECURSIVE GCD(_, _)
GCD(a, b) == IF b = 0 THEN a ELSE GCD(b, a % b)

Norm(n, d) ==
    LET s == IF d < 0 THEN -1 ELSE 1
        g == GCD(Abs(n), Abs(d))
    IN  <<(s * n) \div g, (s * d) \div g>>

R(i) == <<i, 1>>
Frac(n, d) == Norm(n, d)
NULL == <<0, 0>>
IsNull(x) == x[2] = 0
Zero == <<0, 1>>

\* the common factors are divided out before multiplying, to keep the
\* intermediate integers small
RAdd(x, y) ==
    LET g == GCD(x[2], y[2])
    IN  Norm(x[1] * (y[2] \div g) + y[1] * (x[2] \div g), (x[2] \div g) * y[2])
RNeg(x) == <<-x[1], x[2]>>
RSub(x, y) == RAdd(x, RNeg(y))
RMul(x, y) ==
    LET g1 == GCD(Abs(x[1]), y[2])
        g2 == GCD(Abs(y[1]), x[2])
    IN  IF x[1] = 0 \/ y[1] = 0 THEN <<0, 1>>
        ELSE Norm((x[1] \div g1) * (y[1] \div g2), (x[2] \div g2) * (y[2] \div g1))
RInv(x) == IF x[1] < 0 THEN <<-x[2], -x[1]>> ELSE <<x[2], x[1]>>
RDiv(x, y) == RMul(x, RInv(y))
RLt(x, y) == x[1] * y[2] < y[1] * x[2]
RLe(x, y) == x[1] * y[2] <= y[1] * x[2]
RGt(x, y) == RLt(y, x)
RGe(x, y) == RLe(y, x)
RAbs(x) == <<Abs(x[1]), x[2]>>
RPos(x) == x[1] > 0

RECURSIVE RSum(_)
RSum(s) == IF s = <<>> THEN Zero ELSE RAdd(Head(s), RSum(Tail(s)))

(***************************************************************************)
(* Bounds of the model                                                     *)
(***************************************************************************)
MaxShares == 2
MaxPrice == 2

(***************************************************************************)
(* Program constants                                                       *)
(***************************************************************************)
\* Portfolio.__init__: self.usd_try_rate = 35.0
DefaultUsdTry == R(35)
\* PortfolioConfig defaults
weekly_loss_threshold == R(-4)
weekly_gain_threshold == R(7)
weight_deviation_threshold == R(5)

\* a key that is absent from a config dict
NoKey == "<no key>"
\* a numeric key that is absent from a config dict (dict.get falls back)
MISSING == <<1, 0>>

(***************************************************************************)
(* State                                                                   *)
(***************************************************************************)
VARIABLES
    config,         \* st.session_state.config, which is also Portfolio.config
    price_data,     \* Portfolio.price_data
    usd_try_rate,   \* Portfolio.usd_try_rate
    assets,         \* Portfolio.assets: list of Asset
    metrics,        \* Portfolio.metrics: PortfolioMetrics
    last_update,    \* Portfolio.last_update (NoTime until the first success)
    history,        \* the closes the history providers returned to the last refresh
    success,        \* what refresh_prices returned, when the last handler called it
    user,           \* st.session_state.user
    access_token,   \* st.session_state.access_token
    loaded,         \* st.session_state.config / .portfolio are not None
    snapshots,      \* st.session_state.snapshots
    db_snapshots,   \* the rows of the table 'snapshots', in insertion order
    db_portfolios,  \* the table 'portfolios': user_id -> config
    cache,          \* DataCache._cache, the fetchers' cache file: key -> entry
    now             \* the wall clock, in ticks

pvars == <<price_data, usd_try_rate, assets, metrics, last_update, history>>
svars == <<user, access_token, loaded, snapshots>>
dvars == <<db_snapshots, db_portfolios, cache>>
vars == <<config, price_data, usd_try_rate, assets, metrics, last_update, history,
          success, user, access_token, loaded, snapshots, db_snapshots,
          db_portfolios, cache, now>>

NoTime == -1

(***************************************************************************)
(* Asset (portfolio.py, dataclass Asset)                                   *)
(***************************************************************************)
\* Asset(...) as constructed by _build_assets: the computed fields keep
\* their dataclass defaults.
NewAsset(code, asset_type, shares, current_price, prev_week_price, currency, target_weight) ==
    [code |-> code, asset_type |-> asset_type, shares |-> shares,
     current_price |-> current_price, prev_week_price |-> prev_week_price,
     currency |-> currency, target_weight |-> target_weight,
     value_original |-> Zero, value_try |-> Zero, actual_weight |-> Zero,
     weekly_return |-> Zero, weight_deviation |-> Zero, recommendation |-> <<>>]

\* Asset.is_valid raises TypeError when it has to compare a None quantity
is_valid_raises(a) ==
    /\ ~IsNull(a.current_price)
    /\ RPos(a.current_price)
    /\ IsNull(a.shares)

\* a variant of is_valid that looks at the price alone
is_valid_price_only(a) ==
    /\ ~IsNull(a.current_price)
    /\ RPos(a.current_price)

is_valid(a) ==
    /\ ~IsNull(a.current_price)
    /\ RPos(a.current_price)
    /\ ~IsNull(a.shares)
    /\ RPos(a.shares)

(***************************************************************************)
(* Portfolio.__init__                                                      *)
(***************************************************************************)
EmptyTable == [c \in {} |-> NULL]
\* self.price_data = {}
EmptyPriceData == [usd_try |-> MISSING, tefas |-> EmptyTable,
                   us_stocks |-> EmptyTable, crypto |-> EmptyTable]
\* DataCache._cache = {} (no cache file yet).  The fetchers and their cache are
\* run in SpecFetch; the other specifications draw what fetch_all_prices
\* returns from sets of quotes, whatever the cache holds.
EmptyCache == [k \in {} |-> NULL]
\* diversification_score = None (a score is a non-empty list, see below)
NoScore == <<>>
\* PortfolioMetrics()
NewMetrics == [total_value_try |-> Zero, weekly_return_pct |-> Zero,
               sharpe_ratio |-> NULL, volatility_monthly |-> NULL,
               diversification_score |-> NoScore, warnings |-> <<>>]

(***************************************************************************)
(* Portfolio._build_assets                                                 *)
(***************************************************************************)
\* dict.get(key, default) on a numeric key
Get(v, default) == IF v = MISSING THEN default ELSE v
\* a variant that keeps None
OrZeroKeepsNone(x) == x

\* Python's "x or 0": None and 0 both give 0
OrZero(x) == IF IsNull(x) THEN Zero ELSE x
NoQuote == [current_price |-> MISSING, prev_week_price |-> MISSING]
\* self.price_data.get(kind, {}).get(code, {})
PriceInfo(table, code) == IF code \in DOMAIN table THEN table[code] ELSE NoQuote

TefasAsset(f, pd) ==
    LET info == PriceInfo(pd.tefas, f.code)
    IN  NewAsset(f.code, "TEFAS", Get(f.shares, Zero),
                 OrZero(Get(info.current_price, NULL)),
                 OrZero(Get(info.prev_week_price, NULL)),
                 "TRY", Get(f.target_weight, Zero))

UsStockAsset(s, pd) ==
    LET info == PriceInfo(pd.us_stocks, s.ticker)
    IN  NewAsset(s.ticker, "US_STOCK", Get(s.shares, Zero),
                 OrZero(Get(info.current_price, NULL)),
                 OrZero(Get(info.prev_week_price, NULL)),
                 "USD", Get(s.target_weight, Zero))

CryptoAsset(c, pd) ==
    LET info == PriceInfo(pd.crypto, c.symbol)
    IN  NewAsset(c.symbol, "CRYPTO", Get(c.amount, Zero),
                 OrZero(Get(info.current_price, NULL)),
                 OrZero(Get(info.prev_week_price, NULL)),
                 "USDT", Get(c.target_weight, Zero))

build_assets(cfg, pd) ==
    [i \in 1..Len(cfg.tefas_funds) |-> TefasAsset(cfg.tefas_funds[i], pd)]
    \o [i \in 1..Len(cfg.us_stocks) |-> UsStockAsset(cfg.us_stocks[i], pd)]
    \o [i \in 1..Len(cfg.crypto) |-> CryptoAsset(cfg.crypto[i], pd)]

(***************************************************************************)
(* Portfolio._calculate_metrics                                            *)
(***************************************************************************)
\* a variant that converts dollars but not USDT
IsForeignUsdOnly(a) == a.currency = "USD"

IsForeign(a) == a.currency \in {"USD", "USDT"}

\* asset.value_original = asset.current_price * asset.shares
ValueOriginal(a) == RMul(a.current_price, a.shares)

\* asset.value_try: converted with the one rate of the refresh
ValueTry(a, rate) ==
    IF IsForeign(a) THEN RMul(ValueOriginal(a), rate) ELSE ValueOriginal(a)

\* "if asset.prev_week_price and asset.prev_week_price > 0"
HasPrev(a) == ~IsNull(a.prev_week_price) /\ RPos(a.prev_week_price)

PrevValueTry(a, rate) ==
    LET prev_value_orig == RMul(a.prev_week_price, a.shares)
    IN  IF IsForeign(a) THEN RMul(prev_value_orig, rate) ELSE prev_value_orig

\* a variant that leaves the return a fraction instead of a percentage
WeeklyReturnFraction(a) ==
    RDiv(RSub(a.current_price, a.prev_week_price), a.prev_week_price)

\* (current - prev) / prev * 100
WeeklyReturn(a) ==
    RMul(RDiv(RSub(a.current_price, a.prev_week_price), a.prev_week_price), R(100))

\* one iteration of the first loop: invalid assets are skipped
ValueAsset(a, rate) ==
    IF ~is_valid(a) THEN a
    ELSE [a EXCEPT !.value_original = ValueOriginal(a),
                   !.value_try = ValueTry(a, rate),
                   !.weekly_return = IF HasPrev(a) THEN WeeklyReturn(a) ELSE @]

\* index of the first asset whose is_valid raises, 0 when none does
RaiseAt(as) ==
    IF \E i \in 1..Len(as) : is_valid_raises(as[i])
    THEN CHOOSE i \in 1..Len(as) :
            /\ is_valid_raises(as[i])
            /\ \A j \in 1..(i - 1) : ~is_valid_raises(as[j])
    ELSE 0

\* the first loop, run up to (not including) index stop; stop = 0 runs it all
ValueLoop(as, rate, stop) ==
    [i \in 1..Len(as) |->
        IF stop = 0 \/ i < stop THEN ValueAsset(as[i], rate) ELSE as[i]]

\* total_value: the sum of value_try over the valid assets
TotalValue(as) ==
    RSum([i \in 1..Len(as) |-> IF is_valid(as[i]) THEN as[i].value_try ELSE Zero])

\* prev_total_value: the valid assets that have a prior price
PrevTotalValue(as, rate) ==
    RSum([i \in 1..Len(as) |->
            IF is_valid(as[i]) /\ HasPrev(as[i])
            THEN PrevValueTry(as[i], rate) ELSE Zero])

\* a variant that weighs the value in the asset's own currency
WeightAssetOriginal(a, total) ==
    IF RPos(total) /\ is_valid(a)
    THEN LET w == RMul(RDiv(a.value_original, total), R(100))
         IN  [a EXCEPT !.actual_weight = w,
                       !.weight_deviation = RSub(w, a.target_weight)]
    ELSE a

\* a variant that takes the deviation as target less weight
WeightAssetFlipped(a, total) ==
    IF RPos(total) /\ is_valid(a)
    THEN LET w == RMul(RDiv(a.value_try, total), R(100))
         IN  [a EXCEPT !.actual_weight = w,
                       !.weight_deviation = RSub(a.target_weight, w)]
    ELSE a

\* the second loop: weights of the valid assets when the total is positive
WeightAsset(a, total) ==
    IF RPos(total) /\ is_valid(a)
    THEN LET w == RMul(RDiv(a.value_try, total), R(100))
         IN  [a EXCEPT !.actual_weight = w,
                       !.weight_deviation = RSub(w, a.target_weight)]
    ELSE a

WeightLoop(as, total) == [i \in 1..Len(as) |-> WeightAsset(as[i], total)]

\* a variant that divides the gain by the current total
PortfolioWeeklyReturnOnTotal(old, total, prev_total) ==
    IF RPos(prev_total)
    THEN RMul(RDiv(RSub(total, prev_total), total), R(100))
    ELSE old

\* metrics.weekly_return_pct is assigned only when prev_total_value > 0
PortfolioWeeklyReturn(old, total, prev_total) ==
    IF RPos(prev_total)
    THEN RMul(RDiv(RSub(total, prev_total), prev_total), R(100))
    ELSE old

(***************************************************************************)
(* Portfolio._calculate_recommendations                                    *)
(***************************************************************************)
\* the recommendation text, as the list of its parts
Recommendation(a) ==
    IF ~is_valid(a) THEN <<"NO_DATA">>
    ELSE LET r1 == IF RLe(a.weekly_return, weekly_loss_threshold) THEN <<"SELL">>
                   ELSE IF RGe(a.weekly_return, weekly_gain_threshold) THEN <<"TAKE_PROFIT">>
                   ELSE <<>>
             r2 == IF RGe(RAbs(a.weight_deviation), weight_deviation_threshold)
                   THEN IF RPos(a.weight_deviation) THEN <<"REDUCE">> ELSE <<"INCREASE">>
                   ELSE <<>>
         IN  IF r1 \o r2 = <<>> THEN <<"HOLD">> ELSE r1 \o r2

calculate_recommendations(as) ==
    [i \in 1..Len(as) |-> [as[i] EXCEPT !.recommendation = Recommendation(as[i])]]

(***************************************************************************)
(* Portfolio._calculate_risk_metrics                                       *)
(*                                                                         *)
(* The standard deviation is a square root, which is not rational.  The    *)
(* model keeps each number that is built from one with its sign and its    *)
(* square instead (x |-> sign(x) * x^2 is one-to-one and monotone):        *)
(*   volatility_monthly  as  21 * 100^2 * var                              *)
(*   sharpe_ratio, e / std * sqrt(252), as the triple <<e, var, 252>>      *)
(*   a correlation       as  sign(cov) * cov^2 / (var_i * var_j)           *)
(* and diversification_score, (1 - mean corr) * 100, as the list of the    *)
(* pairwise correlations it is the mean of.  A float NaN is the pair NaN.  *)
(***************************************************************************)
NaN == <<-1, 0>>
IsNaN(x) == x = NaN

risk_free_rate == Frac(35, 100)
high_volatility_threshold == R(15)
high_correlation_threshold == Frac(7, 10)

Sign(x) == IF x[1] > 0 THEN 1 ELSE IF x[1] < 0 THEN -1 ELSE 0
RSq(x) == RMul(x, x)

\* hist['Close'].pct_change().dropna(): entry k is the return at row label k.
\* A history is a DataFrame with the columns Date and Close and the row
\* labels 0, 1, ...; the column Date is not read.
PctChange(h) ==
    [k \in 1..(Len(h) - 1) |-> RSub(RDiv(h[k + 1].Close, h[k].Close), R(1))]

\* fetch_*_history(asset.code): the rows the provider has for the code
HistOf(hist, code) == IF code \in DOMAIN hist THEN hist[code] ELSE <<>>

\* a variant that asks for one row more
EnoughHistoryStrict(h) == Len(h) > 6

\* "if hist is not None and len(hist) > 5"
EnoughHistory(h) == Len(h) > 5

\* all_returns: one item per valid asset with enough history, in asset order
RECURSIVE AllReturns(_, _)
AllReturns(as, hist) ==
    IF as = <<>> THEN <<>>
    ELSE LET a == Head(as)
             h == HistOf(hist, a.code)
         IN  (IF is_valid(a) /\ EnoughHistory(h)
              THEN <<[code |-> a.code, returns |-> PctChange(h),
                      weight |-> RDiv(a.actual_weight, R(100))]>>
              ELSE <<>>) \o AllReturns(Tail(as), hist)

Min(S) == CHOOSE x \in S : \A y \in S : x <= y

\* returns_df after dropna(): columns are joined on the row label, so the
\* rows that survive are the labels every column has
AlignedRows(items) == Min({Len(items[i].returns) : i \in 1..Len(items)})

Column(items, i) == SubSeq(items[i].returns, 1, AlignedRows(items))

RMean(s) == RDiv(RSum(s), R(Len(s)))

\* Series.std() squared: the sample variance (ddof = 1)
RVar(s) ==
    LET m == RMean(s)
    IN  RDiv(RSum([k \in 1..Len(s) |-> RSq(RSub(s[k], m))]), R(Len(s) - 1))

RCov(s, t) ==
    LET ms == RMean(s)
        mt == RMean(t)
    IN  RDiv(RSum([k \in 1..Len(s) |-> RMul(RSub(s[k], ms), RSub(t[k], mt))]),
             R(Len(s) - 1))

\* the correlation from the covariance and the two variances
CorrFrom(cov, var_s, var_t) ==
    IF var_s = Zero \/ var_t = Zero THEN NaN
    ELSE RMul(R(Sign(cov)), RDiv(RSq(cov), RMul(var_s, var_t)))

\* corr_matrix.iloc[i, j]; NaN when a column is constant
Corr(s, t) == CorrFrom(RCov(s, t), RVar(s), RVar(t))

\* a variant that also warns at the threshold
IsHighCorrOrEqual(c) == ~IsNaN(c) /\ RGe(RAbs(c), RSq(high_correlation_threshold))

\* abs(corr) > threshold; a comparison with NaN is False
IsHighCorr(c) == ~IsNaN(c) /\ RGt(RAbs(c), RSq(high_correlation_threshold))

\* the pairs (i, j), i < j, in the order of the two nested loops
RECURSIVE PairsFrom(_, _, _)
PairsFrom(i, j, n) ==
    IF i >= n THEN <<>>
    ELSE IF j > n THEN PairsFrom(i + 1, i + 2, n)
    ELSE <<(<<i, j>>)>> \o PairsFrom(i, j + 1, n)

Pairs(n) == PairsFrom(1, 2, n)

\* weights / weights.sum() divides 0 by 0, and every weight is NaN, when
\* the weights of the items sum to 0
NanWeights(items) == RSum([i \in 1..Len(items) |-> items[i].weight]) = Zero

\* weights = weights / weights.sum()
NormalisedWeights(items) ==
    [i \in 1..Len(items) |->
        IF NanWeights(items) THEN NaN
        ELSE RDiv(items[i].weight, RSum([j \in 1..Len(items) |-> items[j].weight]))]

\* (returns_df * weights).sum(axis=1)
PortfolioReturns(items, w) ==
    [k \in 1..AlignedRows(items) |->
        RSum([i \in 1..Len(items) |-> RMul(Column(items, i)[k], w[i])])]

\* monthly_vol = daily_vol * sqrt(21) * 100, kept as its square
MonthlyVol(nan, var) == IF nan THEN NaN ELSE RMul(R(21 * 100 * 100), var)

\* the warning appended when monthly_vol > high_volatility_threshold
VolWarning(monthly_vol) ==
    IF ~IsNaN(monthly_vol) /\ RGt(monthly_vol, RSq(high_volatility_threshold))
    THEN <<[kind |-> "HIGH_VOLATILITY", codes |-> <<>>]>>
    ELSE <<>>

\* sharpe_ratio is assigned only when daily_vol > 0
Sharpe(old, nan, var, mean) ==
    IF ~nan /\ RPos(var)
    THEN <<RSub(mean, RDiv(risk_free_rate, R(252))), var, R(252)>>
    ELSE old.sharpe_ratio

\* the correlations of the pairs of columns, in the order of Pairs
Correlations(items) ==
    [p \in 1..Len(Pairs(Len(items))) |->
        Corr(Column(items, Pairs(Len(items))[p][1]),
             Column(items, Pairs(Len(items))[p][2]))]

\* the warnings of the highly correlated pairs, from pair p on
RECURSIVE CorrWarnings(_, _, _)
CorrWarnings(items, corr, p) ==
    IF p > Len(corr) THEN <<>>
    ELSE (IF IsHighCorr(corr[p])
          THEN <<[kind |-> "HIGH_CORRELATION",
                  codes |-> <<items[Pairs(Len(items))[p][1]].code,
                              items[Pairs(Len(items))[p][2]].code>>]>>
          ELSE <<>>) \o CorrWarnings(items, corr, p + 1)

\* the assignments of the try block: the correlation part runs only for more
\* than one column
RiskFields(old, items, monthly_vol, sharpe, corr) ==
    [old EXCEPT
        !.volatility_monthly = monthly_vol,
        !.sharpe_ratio = sharpe,
        !.diversification_score = IF Len(items) > 1 THEN corr ELSE @,
        !.warnings = VolWarning(monthly_vol)
                     \o (IF Len(items) > 1 THEN CorrWarnings(items, corr, 1) ELSE <<>>)]

RiskStats(old, items, nan, var, mean) ==
    RiskFields(old, items, MonthlyVol(nan, var), Sharpe(old, nan, var, mean),
               Correlations(items))

RiskFrom(old, items, nan, portfolio_returns) ==
    RiskStats(old, items, nan, RVar(portfolio_returns), RMean(portfolio_returns))

\* _calculate_risk_metrics on the collected all_returns: the two early
\* returns leave every field but warnings as it was
RiskOf(old, items) ==
    IF items = <<>> THEN [old EXCEPT !.warnings = <<>>]
    ELSE IF AlignedRows(items) < 5 THEN [old EXCEPT !.warnings = <<>>]
    ELSE RiskFrom(old, items, NanWeights(items),
                  PortfolioReturns(items, NormalisedWeights(items)))

\* the metrics after _calculate_risk_metrics; a field the function does not
\* assign keeps the value it had in old
calculate_risk_metrics(old, as, hist) == RiskOf(old, AllReturns(as, hist))

(***************************************************************************)
(* Portfolio.get_summary_dataframe: one row per asset, valid or not        *)
(***************************************************************************)
get_summary_dataframe(as) ==
    [i \in 1..Len(as) |->
        [Kod |-> as[i].code, Tur |-> as[i].asset_type, Adet |-> as[i].shares,
         Fiyat |-> as[i].current_price, Birim |-> as[i].currency,
         Deger |-> as[i].value_try, Agirlik |-> as[i].actual_weight,
         Hedef |-> as[i].target_weight, Sapma |-> as[i].weight_deviation,
         Haftalik |-> as[i].weekly_return, Oneri |-> as[i].recommendation]]

(***************************************************************************)
(* Portfolio.refresh_prices                                                *)
(***************************************************************************)
\* a variant that reads the codes with a default and never raises
HasAllCodesLax(cfg) == TRUE

\* f['code'], s['ticker'], c['symbol'] raise KeyError on a record without its key
HasAllCodes(cfg) ==
    /\ \A i \in 1..Len(cfg.tefas_funds) : cfg.tefas_funds[i].code # NoKey
    /\ \A i \in 1..Len(cfg.us_stocks) : cfg.us_stocks[i].ticker # NoKey
    /\ \A i \in 1..Len(cfg.crypto) : cfg.crypto[i].symbol # NoKey

\* the Portfolio's fields
PortfolioState ==
    [price_data |-> price_data, usd_try_rate |-> usd_try_rate, assets |-> assets,
     metrics |-> metrics, last_update |-> last_update]

\* Portfolio(config): the fields __init__ sets
NewPortfolio ==
    [price_data |-> EmptyPriceData, usd_try_rate |-> DefaultUsdTry, assets |-> <<>>,
     metrics |-> NewMetrics, last_update |-> NoTime]

\* the end of _calculate_metrics: recommendations, then risk metrics
FinishMetrics(m1, recommended, hist) ==
    [assets |-> recommended,
     metrics |-> calculate_risk_metrics(m1, recommended, hist)]

\* _calculate_metrics after the first loop
AggregateMetrics(old, valued, total, prev_total, hist) ==
    FinishMetrics([old EXCEPT !.total_value_try = total,
                              !.weekly_return_pct =
                                  PortfolioWeeklyReturn(@, total, prev_total)],
                  calculate_recommendations(WeightLoop(valued, total)), hist)

MetricsOf(old, valued, rate, hist) ==
    AggregateMetrics(old, valued, TotalValue(valued), PrevTotalValue(valued, rate), hist)

\* _calculate_metrics when no is_valid call raises
calculate_metrics(old, built, rate, hist) ==
    MetricsOf(old, ValueLoop(built, rate, 0), rate, hist)

\* a variant that forgets the quotes it fetched
RefreshDoneDroppingQuotes(p, pd, rate, c, at) ==
    [p |-> [p EXCEPT !.price_data = EmptyPriceData, !.usd_try_rate = rate,
                     !.assets = c.assets, !.metrics = c.metrics,
                     !.last_update = at],
     ok |-> TRUE]

\* refresh_prices returns True: c is what _calculate_metrics computed
RefreshDone(p, pd, rate, c, at) ==
    [p |-> [p EXCEPT !.price_data = pd, !.usd_try_rate = rate,
                     !.assets = c.assets, !.metrics = c.metrics,
                     !.last_update = at],
     ok |-> TRUE]

\* refresh_prices from _build_assets on: an is_valid that raises ends the
\* first loop of _calculate_metrics and the call, which returns False
RefreshBuilt(p, pd, rate, built, hist, at) ==
    IF RaiseAt(built) # 0
    THEN [p |-> [p EXCEPT !.price_data = pd, !.usd_try_rate = rate,
                          !.assets = ValueLoop(built, rate, RaiseAt(built))],
          ok |-> FALSE]
    ELSE RefreshDone(p, pd, rate, calculate_metrics(p.metrics, built, rate, hist), at)

\* refresh_prices() on Portfolio p with config cfg: pd is what fetch_all_prices
\* returns, hist what the history providers return, at the time of the call.
\* The result is the Portfolio's fields after the call and the value returned.
refresh_prices(p, cfg, pd, hist, at) ==
    IF ~HasAllCodes(cfg)
    THEN [p |-> p, ok |-> FALSE]
    ELSE RefreshBuilt(p, pd, Get(pd.usd_try, DefaultUsdTry), build_assets(cfg, pd),
                      hist, at)

(***************************************************************************)
(* The clock: datetime.now(), weekday() and isocalendar()                  *)
(***************************************************************************)
TicksPerDay == 2
\* tick 0 is the start of a Monday that opens ISO week 1
WeeksPerYear == 52
Friday == 4
Day(t) == t \div TicksPerDay
Weekday(t) == Day(t) % 7
\* the calendar week (year and week) a tick lies in
CalendarWeek(t) == Day(t) \div 7
\* datetime.now().isocalendar()[1]
WeekNumber(t) == (CalendarWeek(t) % WeeksPerYear) + 1

(***************************************************************************)
(* The table 'snapshots' (supabase_client.py)                              *)
(***************************************************************************)
NoUser == "<none>"
Users == {"u1", "u2"}

RowsOf(table, u) == SelectSeq(table, LAMBDA r : r.user_id = u)

\* save_snapshot: one insert; created_at is the time of the insert
SnapshotRow(u, total_value, summary, at) ==
    [user_id |-> u, total_value_try |-> total_value, assets |-> summary,
     week_number |-> WeekNumber(at), created_at |-> at]

save_snapshot(table, u, total_value, summary, at) ==
    Append(table, SnapshotRow(u, total_value, summary, at))

\* the rows of s ordered by created_at, latest first
RECURSIVE OrderDesc(_)
OrderDesc(s) ==
    IF s = <<>> THEN <<>>
    ELSE LET i == CHOOSE i \in 1..Len(s) :
                    \A j \in 1..Len(s) :
                        \/ s[j].created_at < s[i].created_at
                        \/ (s[j].created_at = s[i].created_at /\ j >= i)
         IN  <<s[i]>> \o OrderDesc(SubSeq(s, 1, i - 1) \o SubSeq(s, i + 1, Len(s)))

\* a variant of Reverse that keeps the order of the query
KeepOrder(s) == s

Reverse(s) == [i \in 1..Len(s) |-> s[Len(s) + 1 - i]]

LoadLimit == 52
\* load_snapshots: the limit latest rows of the user, oldest first
load_snapshots(table, u, limit) ==
    LET d == OrderDesc(RowsOf(table, u))
    IN  Reverse(SubSeq(d, 1, IF Len(d) < limit THEN Len(d) ELSE limit))

\* the whole of load_snapshots: the query raises when the store does not
\* answer (up is FALSE) and the except branch returns []
load_snapshots_call(table, u, limit, up) ==
    IF up THEN load_snapshots(table, u, limit) ELSE <<>>

\* should_take_weekly_snapshot: a Friday with no row of this week number
should_take_weekly_snapshot(table, u, at) ==
    /\ Weekday(at) = Friday
    /\ ~\E i \in 1..Len(table) :
            /\ table[i].user_id = u
            /\ table[i].week_number = WeekNumber(at)

\* a variant of the delete that has no filter on the user
delete_every_snapshot(table, u) == <<>>

\* delete_all_snapshots: delete().eq('user_id', user_id)
delete_all_snapshots(table, u) == SelectSeq(table, LAMBDA r : r.user_id # u)

(***************************************************************************)
(* dashboard.py: the snapshot a handler hands to save_snapshot             *)
(***************************************************************************)
ValidCodes(as) == {as[i].code : i \in {j \in 1..Len(as) : is_valid(as[j])}}

\* the dict comprehension: a later asset with the same code overwrites
assets_summary(as) ==
    [c \in ValidCodes(as) |->
        LET i == CHOOSE i \in 1..Len(as) :
                    /\ is_valid(as[i]) /\ as[i].code = c
                    /\ \A j \in (i + 1)..Len(as) : ~(is_valid(as[j]) /\ as[j].code = c)
        IN  [value_try |-> as[i].value_try, shares |-> as[i].shares,
             price |-> as[i].current_price]]

(***************************************************************************)
(* dashboard.py, render_risk_analysis_page: the drawdown chart             *)
(***************************************************************************)
\* values = [float(s['total_value_try']) for s in snapshots]
SnapshotValues(rows) == [i \in 1..Len(rows) |-> rows[i].total_value_try]

\* pd.Series(values).expanding().max()
RunningMax(values) ==
    [i \in 1..Len(values) |->
        CHOOSE m \in {values[k] : k \in 1..i} : \A k \in 1..i : RLe(values[k], m)]

\* float division of a value that is not above 0: -inf
NegInf == <<-2, 0>>

\* (value - running_max) / running_max * 100 on floats: a division by 0
\* raises nothing and gives NaN for 0 / 0 and -inf for a negative numerator
DrawdownAt(value, running_max) ==
    IF running_max = Zero
    THEN (IF value = Zero THEN NaN ELSE NegInf)
    ELSE RMul(RDiv(RSub(value, running_max), running_max), R(100))

\* drawdowns = (pd.Series(values) - running_max) / running_max * 100
Drawdowns(values) ==
    [i \in 1..Len(values) |-> DrawdownAt(values[i], RunningMax(values)[i])]

\* the chart is drawn when the portfolio has assets and at least 2 snapshots
DrawdownShown == loaded /\ assets # <<>> /\ Len(snapshots) >= 2

\* what the drawdown part of the page shows: the drawdowns, or nothing
NoChart == <<>>
RiskPageDrawdowns ==
    IF DrawdownShown THEN Drawdowns(SnapshotValues(snapshots)) ELSE NoChart

(***************************************************************************)
(* benchmark.py, calculate_benchmark_returns                               *)
(***************************************************************************)
\* result[key] = None
NoSeries == [values |-> <<>>, total_return |-> NULL]
\* fetch_benchmark_data returned None
NoData == <<>>
BenchmarkKeys == {"spy", "qqq", "btc"}

\* a variant that asks for one snapshot only
TooFewSnapshotsForOne(rows) == Len(rows) < 1

\* "if not snapshots or len(snapshots) < 2: return result"
TooFewSnapshots(rows) == Len(rows) < 2

\* a float division that does not raise: x / 0 is inf or NaN
FloatDiv(x, y) ==
    IF y = Zero THEN (IF x = Zero THEN NaN ELSE <<Sign(x) * 2, 0>>) ELSE RDiv(x, y)

\* the values scaled to 100 at the first one, and the return over the whole
\* series in percent
Normalised(values) ==
    [values |-> [i \in 1..Len(values) |-> RMul(RDiv(values[i], values[1]), R(100))],
     total_return |-> RMul(RSub(RDiv(values[Len(values)], values[1]), R(1)), R(100))]

\* a benchmark's entry: pandas divides by a first close of 0 without raising
BenchmarkSeries(closes) ==
    IF closes = NoData THEN NoSeries
    ELSE IF closes[1] = Zero
    THEN [values |-> [i \in 1..Len(closes) |-> FloatDiv(closes[i], Zero)],
          total_return |-> FloatDiv(closes[Len(closes)], Zero)]
    ELSE Normalised(closes)

\* calculate_benchmark_returns(snapshots): bench[key] is what
\* fetch_benchmark_data returns for the key's symbol.  v / first_value is a
\* division of Python floats and raises ZeroDivisionError when the first
\* snapshot's value is 0.
calculate_benchmark_returns(rows, bench) ==
    IF TooFewSnapshots(rows)
    THEN [raised |-> FALSE, portfolio |-> NoSeries,
          benchmarks |-> [k \in BenchmarkKeys |-> NoSeries]]
    ELSE IF SnapshotValues(rows)[1] = Zero
    THEN [raised |-> TRUE, portfolio |-> NoSeries,
          benchmarks |-> [k \in BenchmarkKeys |-> NoSeries]]
    ELSE [raised |-> FALSE, portfolio |-> Normalised(SnapshotValues(rows)),
          benchmarks |-> [k \in BenchmarkKeys |-> BenchmarkSeries(bench[k])]]

\* what the providers may return for the three benchmarks
BenchmarkChoices == [BenchmarkKeys -> {NoData, <<R(1), R(2)>>}]

(***************************************************************************)
(* Configs and provider data the model draws from                          *)
(***************************************************************************)
Fund(code, shares, target_weight) ==
    [code |-> code, shares |-> shares, target_weight |-> target_weight]
Stock(ticker, shares, target_weight) ==
    [ticker |-> ticker, shares |-> shares, target_weight |-> target_weight]
Coin(symbol, amount, target_weight) ==
    [symbol |-> symbol, amount |-> amount, target_weight |-> target_weight]

\* PortfolioConfig(): no holdings
EmptyConfig == [tefas_funds |-> <<>>, us_stocks |-> <<>>, crypto |-> <<>>]

Quote(current_price, prev_week_price) ==
    [current_price |-> current_price, prev_week_price |-> prev_week_price]

TefasCodes(cfg) == {cfg.tefas_funds[i].code : i \in 1..Len(cfg.tefas_funds)}
UsTickers(cfg) == {cfg.us_stocks[i].ticker : i \in 1..Len(cfg.us_stocks)}
CryptoSymbols(cfg) == {cfg.crypto[i].symbol : i \in 1..Len(cfg.crypto)}
AllCodes(cfg) == TefasCodes(cfg) \cup UsTickers(cfg) \cup CryptoSymbols(cfg)

\* the table t without the codes that have no entry
WithoutAbsent(t) == [c \in {d \in DOMAIN t : t[d] # NoQuote} |-> t[c]]

\* the tables that give each code of S one of the quotes Quotes[code]; the
\* choice NoQuote leaves the code out of the table
QuoteTables(S, Quotes) ==
    {WithoutAbsent(t) :
        t \in {u \in [S -> UNION {Quotes[c] : c \in S}] : \A c \in S : u[c] \in Quotes[c]}}

\* fetch_all_prices: one quote per requested code and the USD/TRY rate
PriceDataChoices(cfg, Quotes, Rates) ==
    [usd_try : Rates, tefas : QuoteTables(TefasCodes(cfg), Quotes),
     us_stocks : QuoteTables(UsTickers(cfg), Quotes),
     crypto : QuoteTables(CryptoSymbols(cfg), Quotes)]

\* the histories that give every code of cfg the same rows
SameHistory(cfg, Hists) == {[c \in AllCodes(cfg) |-> h] : h \in Hists}

\* the histories that give each code of cfg one of the histories Hists[code]
HistoryChoices(cfg, Hists) ==
    {f \in [AllCodes(cfg) -> UNION {Hists[c] : c \in AllCodes(cfg)}] :
        \A c \in AllCodes(cfg) : f[c] \in Hists[c]}

\* one row of a history: the close of a day
Bar(date, close) == [Date |-> date, Close |-> close]

\* closes 1, 2, 1, 2, ... on the days 1..n
Zig(n) == [k \in 1..n |-> Bar(k, IF k % 2 = 1 THEN R(1) ELSE R(2))]
\* closes 2, 1, 2, 1, ... on the days 1..n
Zag(n) == [k \in 1..n |-> Bar(k, IF k % 2 = 1 THEN R(2) ELSE R(1))]
\* the close 1 on each of the days 1..n
Flat(n) == [k \in 1..n |-> Bar(k, R(1))]
\* closes 1, 1, 2, 2, 1, 1, ... on the days 1..n
Step(n) == [k \in 1..n |-> Bar(k, IF k % 4 \in {1, 2} THEN R(1) ELSE R(2))]
\* n closes from 1 on, each the one before moved by steps[k] tenths (the
\* steps are repeated when n asks for more)
RECURSIVE Walk(_, _)
Walk(steps, n) ==
    IF n = 1 THEN <<R(1)>>
    ELSE Append(Walk(steps, n - 1),
                RMul(Walk(steps, n - 1)[n - 1],
                     Frac(10 + steps[((n - 2) % Len(steps)) + 1], 10)))
\* two histories whose first five returns correlate at exactly 0.7
WalkA(n) == [k \in 1..n |-> Bar(k, Walk(<<2, -2, 1, -1, 0>>, n)[k])]
WalkB(n) == [k \in 1..n |-> Bar(k, Walk(<<2, -1, 1, 0, -2>>, n)[k])]
\* the closes of Zig on trading days: the last row comes after a weekend
Gapped(n) == [k \in 1..n |-> Bar(IF k = n THEN k + 2 ELSE k, Zig(n)[k].Close)]

\* the number of closes of a full history in the model
HistLen == 6

\* the app's model: what the cloud holds for a user at the start
SpecConfigs ==
    { EmptyConfig,
      [tefas_funds |-> <<Fund("TCD", R(1), R(50))>>,
       us_stocks |-> <<Stock("AAPL", R(1), R(50))>>, crypto |-> <<>>] }
\* the app's model keeps the provider data small: a quote or none, no history
SpecQuotes(code) == {Quote(NULL, NULL), Quote(R(1), NULL)}
SpecRates == {R(35)}
SpecHists == {<<>>}

(***************************************************************************)
(* Portfolio.get_rebalancing_suggestions                                   *)
(***************************************************************************)
\* "abs(asset.weight_deviation) >= self.config.weight_deviation_threshold",
\* for a valid asset; a comparison with NaN is False
NeedsRebalancing(a) ==
    /\ is_valid(a)
    /\ ~IsNull(a.weight_deviation)
    /\ RGe(RAbs(a.weight_deviation), weight_deviation_threshold)

\* target_value = total_value_try * target_weight / 100
TargetValue(a, total) == RDiv(RMul(total, a.target_weight), R(100))

\* diff_value = target_value - current_value
DiffValue(a, total) == RSub(TargetValue(a, total), a.value_try)

\* the price of one unit in TRY
UnitPriceTry(a, rate) == IF IsForeign(a) THEN RMul(a.current_price, rate) ELSE a.current_price

\* diff_shares = diff_value / unit_price_try if unit_price_try > 0 else 0
DiffShares(a, total, rate) ==
    IF RPos(UnitPriceTry(a, rate))
    THEN RDiv(DiffValue(a, total), UnitPriceTry(a, rate))
    ELSE Zero

\* a variant that also buys when there is nothing to trade
ActionBuyOnZero(diff_shares) == IF RGe(diff_shares, Zero) THEN "AL" ELSE "SAT"

\* 'AL' if diff_shares > 0 else 'SAT'
Action(diff_shares) == IF RPos(diff_shares) THEN "AL" ELSE "SAT"

Suggestion(a, total, rate) ==
    [code |-> a.code, current_weight |-> a.actual_weight,
     target_weight |-> a.target_weight, deviation |-> a.weight_deviation,
     action |-> Action(DiffShares(a, total, rate)),
     shares |-> RAbs(DiffShares(a, total, rate)),
     value_try |-> RAbs(DiffValue(a, total))]

\* the suggestions in the order of the assets
RECURSIVE Suggestions(_, _, _)
Suggestions(as, total, rate) ==
    IF as = <<>> THEN <<>>
    ELSE (IF NeedsRebalancing(Head(as))
          THEN <<Suggestion(Head(as), total, rate)>> ELSE <<>>)
         \o Suggestions(Tail(as), total, rate)

\* x put into a list sorted by abs(deviation), largest first, behind the
\* items of the same abs(deviation)
RECURSIVE InsertByDeviation(_, _)
InsertByDeviation(x, sorted) ==
    IF sorted = <<>> THEN <<x>>
    ELSE IF RGe(RAbs(Head(sorted).deviation), RAbs(x.deviation))
    THEN <<Head(sorted)>> \o InsertByDeviation(x, Tail(sorted))
    ELSE <<x>> \o sorted

\* sorted(suggestions, key=lambda x: abs(x['deviation']), reverse=True),
\* which keeps the order of items with equal keys
RECURSIVE SortedByDeviation(_)
SortedByDeviation(s) ==
    IF s = <<>> THEN <<>>
    ELSE InsertByDeviation(s[Len(s)], SortedByDeviation(SubSeq(s, 1, Len(s) - 1)))

get_rebalancing_suggestions(as, total, rate) ==
    SortedByDeviation(Suggestions(as, total, rate))

(***************************************************************************)
(* data_fetcher.py: the cache and the price fetchers.  A quote is reduced  *)
(* to its current and prior price; a provider attempt that raised or gave  *)
(* nothing is the answer NoQuote (for the rate: MISSING).                  *)
(***************************************************************************)
\* ttl_seconds = 3600, which is less than one tick of the model's clock
CacheTtl == 1
\* the dict returned when nothing is known: current_price None
NoPriceQuote == Quote(NULL, NULL)
\* return 35.5
FallbackRate == Frac(71, 2)

\* cache_key = "USDTRY", f"US_{ticker}", f"TEFAS_{fund_code}"
RateKey == "USDTRY"
UsKey(ticker) == "US_" \o ticker
TefasKey(fund_code) == "TEFAS_" \o fund_code
\* symbol.replace('/', '_'), for the symbols of the model
Underscored(symbol) ==
    IF symbol = "BTC/USDT" THEN "BTC_USDT"
    ELSE IF symbol = "ETH/USDT" THEN "ETH_USDT"
    ELSE symbol
\* cache_key = f"CRYPTO_{symbol.replace('/', '_')}"
CryptoKey(symbol) == "CRYPTO_" \o Underscored(symbol)

\* a variant that never finds an entry
CacheHasNothing(c, key) == FALSE

\* "cached and 'data' in cached", cached being DataCache.get(key)
CacheHas(c, key) == key \in DOMAIN c

\* DataCache.get: is_stale unless the entry is younger than the ttl
IsStale(c, key, at) == ~(at - c[key].timestamp < CacheTtl)

\* the entry is there and not stale
FreshIn(c, key, at) == CacheHas(c, key) /\ ~IsStale(c, key, at)

\* DataCache.set
CacheSet(c, key, data, at) ==
    [k \in DOMAIN c \cup {key} |->
        IF k = key THEN [timestamp |-> at, data |-> data] ELSE c[k]]

\* what a fetcher returns, and the cache it leaves
Fetched(value, c) == [value |-> value, cache |-> c]

\* the stale-cache fallback of a price fetcher
CachedOrNoPrice(c, key) ==
    IF CacheHas(c, key) THEN Fetched(c[key].data, c) ELSE Fetched(NoPriceQuote, c)

\* fetch_usd_try_rate: a fresh entry, else yfinance, else the chart API,
\* else the entry even when stale, else 35.5
fetch_usd_try_rate(c, yf, api, at) ==
    IF FreshIn(c, RateKey, at) THEN Fetched(c[RateKey].data.rate, c)
    ELSE IF yf # MISSING THEN Fetched(yf, CacheSet(c, RateKey, [rate |-> yf], at))
    ELSE IF api # MISSING THEN Fetched(api, CacheSet(c, RateKey, [rate |-> api], at))
    ELSE IF CacheHas(c, RateKey) THEN Fetched(c[RateKey].data.rate, c)
    ELSE Fetched(FallbackRate, c)

\* fetch_us_stock_price: a fresh entry, else yfinance, else the chart API,
\* else the entry even when stale, else the quote without a price
fetch_us_stock_price(c, ticker, yf, api, at) ==
    IF FreshIn(c, UsKey(ticker), at) THEN Fetched(c[UsKey(ticker)].data, c)
    ELSE IF yf # NoQuote THEN Fetched(yf, CacheSet(c, UsKey(ticker), yf, at))
    ELSE IF api # NoQuote THEN Fetched(api, CacheSet(c, UsKey(ticker), api, at))
    ELSE CachedOrNoPrice(c, UsKey(ticker))

\* fetch_crypto_price: without ccxt the quote without a price; else the
\* exchange, else the entry even when stale, else the quote without a price
fetch_crypto_price(c, symbol, ccxt_available, answer, at) ==
    IF ~ccxt_available THEN Fetched(NoPriceQuote, c)
    ELSE IF answer # NoQuote
    THEN Fetched(answer, CacheSet(c, CryptoKey(symbol), answer, at))
    ELSE CachedOrNoPrice(c, CryptoKey(symbol))

\* "result and result.get('current_price')": a price of None or 0 does not count
HasPrice(q) ==
    /\ q # NoQuote
    /\ ~IsNull(q.current_price)
    /\ q.current_price # Zero

\* fetch_tefas_price: the crawler, else the API, else the entry even when
\* stale, else the quote without a price
fetch_tefas_price(c, fund_code, crawler, requests, at) ==
    IF HasPrice(crawler)
    THEN Fetched(crawler, CacheSet(c, TefasKey(fund_code), crawler, at))
    ELSE IF HasPrice(requests)
    THEN Fetched(requests, CacheSet(c, TefasKey(fund_code), requests, at))
    ELSE CachedOrNoPrice(c, TefasKey(fund_code))

\* results[kind][code] = ...
Put(table, code, value) ==
    [k \in DOMAIN table \cup {code} |-> IF k = code THEN value ELSE table[k]]

\* one call of a loop of fetch_all_prices; ans holds the answers of the
\* first and the second provider
FetchOne(kind, c, code, ans, at) ==
    IF kind = "tefas" THEN fetch_tefas_price(c, code, ans[1], ans[2], at)
    ELSE IF kind = "crypto" THEN fetch_crypto_price(c, code, TRUE, ans[1], at)
    ELSE fetch_us_stock_price(c, code, ans[1], ans[2], at)

\* a loop of fetch_all_prices over the codes of one kind
RECURSIVE FetchEach(_, _, _, _, _, _)
FetchEach(kind, codes, answers, at, table, c) ==
    IF codes = <<>> THEN [table |-> table, cache |-> c]
    ELSE LET r == FetchOne(kind, c, Head(codes), answers[Head(codes)], at)
         IN  FetchEach(kind, Tail(codes), answers, at,
                       Put(table, Head(codes), r.value), r.cache)

\* the lists refresh_prices hands to fetch_all_prices
TefasCodeList(cfg) == [i \in 1..Len(cfg.tefas_funds) |-> cfg.tefas_funds[i].code]
UsTickerList(cfg) == [i \in 1..Len(cfg.us_stocks) |-> cfg.us_stocks[i].ticker]
CryptoSymbolList(cfg) == [i \in 1..Len(cfg.crypto) |-> cfg.crypto[i].symbol]

\* fetch_all_prices: the rate, then the funds, the coins and the stocks last
FetchedAll(rate, tefas, crypto, us) ==
    [results |-> [usd_try |-> rate.value, tefas |-> tefas.table,
                  us_stocks |-> us.table, crypto |-> crypto.table],
     cache |-> us.cache]

FetchUsAfter(cfg, answers, at, rate, tefas, crypto) ==
    FetchedAll(rate, tefas, crypto,
               FetchEach("us_stocks", UsTickerList(cfg), answers.quotes, at,
                         EmptyTable, crypto.cache))

FetchCryptoAfter(cfg, answers, at, rate, tefas) ==
    FetchUsAfter(cfg, answers, at, rate, tefas,
                 FetchEach("crypto", CryptoSymbolList(cfg), answers.quotes, at,
                           EmptyTable, tefas.cache))

FetchTefasAfter(cfg, answers, at, rate) ==
    FetchCryptoAfter(cfg, answers, at, rate,
                     FetchEach("tefas", TefasCodeList(cfg), answers.quotes, at,
                               EmptyTable, rate.cache))

fetch_all_prices(c, cfg, answers, at) ==
    FetchTefasAfter(cfg, answers, at,
                    fetch_usd_try_rate(c, answers.usd_try[1], answers.usd_try[2], at))

(***************************************************************************)
(* The handlers of dashboard.py                                            *)
(***************************************************************************)
\* the session starts on a Thursday
StartTick == 3 * TicksPerDay
\* the clock stops this many days after the start
MaxDays == 1
MaxRows == 2
\* the quantities the user types are 0..MaxEdit
MaxEdit == 1

LoggedIn == user # NoUser
\* the model's bounds on the table and the clock, which an insert advances
CanInsert ==
    /\ Len(db_snapshots) < MaxRows
    /\ Day(now + 1) - Day(StartTick) <= MaxDays
NoToken == "<none>"
\* no history provider has been asked yet
NoHistory == [c \in {} |-> <<>>]

SetPortfolio(p) ==
    /\ price_data' = p.price_data
    /\ usd_try_rate' = p.usd_try_rate
    /\ assets' = p.assets
    /\ metrics' = p.metrics
    /\ last_update' = p.last_update

\* load_config_from_cloud, Portfolio(config), load_snapshots_from_cloud
LoadSession(u) ==
    /\ config' = db_portfolios[u]
    /\ SetPortfolio(NewPortfolio)
    /\ history' = NoHistory
    /\ success' = "none"
    /\ snapshots' = load_snapshots(db_snapshots, u, LoadLimit)
    /\ loaded' = TRUE

\* render_login_page, then main(): the first run after a login loads the session
Login ==
    /\ ~LoggedIn
    /\ \E u \in Users :
        /\ user' = u
        /\ access_token' = "token"
        /\ IF ~loaded THEN LoadSession(u)
           ELSE /\ success' = "none"
                /\ UNCHANGED <<config, pvars, snapshots, loaded>>
    /\ UNCHANGED <<dvars, now>>

\* a logout that clears the user and leaves the token in the session
LogoutKeepingToken ==
    /\ LoggedIn
    /\ user' = NoUser
    /\ success' = "none"
    /\ UNCHANGED <<access_token, config, pvars, loaded, snapshots, dvars, now>>

\* logout()
Logout ==
    /\ LoggedIn
    /\ user' = NoUser
    /\ access_token' = NoToken
    /\ success' = "none"
    /\ UNCHANGED <<config, pvars, loaded, snapshots, dvars, now>>

\* render_sidebar: the button "Yükle"
ClickLoad ==
    /\ LoggedIn
    /\ LoadSession(user)
    /\ UNCHANGED <<user, access_token, dvars, now>>

\* take_snapshot_if_needed(portfolio), the portfolio being p
TakeSnapshotIfNeeded(p) ==
    IF /\ LoggedIn
       /\ should_take_weekly_snapshot(db_snapshots, user, now)
       /\ p.assets # <<>>
       /\ CanInsert
    THEN /\ db_snapshots' = save_snapshot(db_snapshots, user, p.metrics.total_value_try,
                                          assets_summary(p.assets), now)
         /\ snapshots' = load_snapshots(db_snapshots', user, LoadLimit)
         /\ now' = now + 1
    ELSE UNCHANGED <<db_snapshots, snapshots, now>>

\* the button "Güncelle" after refresh_prices returned r:
\* take_snapshot_if_needed on success
AfterRefresh(r, hist) ==
    /\ SetPortfolio(r.p)
    /\ success' = IF r.ok THEN "ok" ELSE "failed"
    /\ history' = IF r.ok THEN hist ELSE history
    /\ IF r.ok THEN TakeSnapshotIfNeeded(r.p)
       ELSE UNCHANGED <<db_snapshots, snapshots, now>>

\* the button "Güncelle": refresh_prices, then take_snapshot_if_needed on success
RefreshHandler(Quotes, Rates, Hists) ==
    /\ loaded
    /\ \E pd \in (IF HasAllCodes(config) THEN PriceDataChoices(config, Quotes, Rates)
                    ELSE {EmptyPriceData}),
          hist \in (IF HasAllCodes(config) THEN Hists ELSE {NoHistory}) :
        AfterRefresh(refresh_prices(PortfolioState, config, pd, hist, now), hist)
    /\ UNCHANGED <<config, user, access_token, loaded, db_portfolios, cache>>

ClickRefresh ==
    /\ LoggedIn
    /\ RefreshHandler([c \in AllCodes(config) |-> SpecQuotes(c)], SpecRates,
                      SameHistory(config, SpecHists))

\* render_weekly_report_page: the button "Manuel Snapshot Al"
ManualSnapshot ==
    /\ LoggedIn
    /\ loaded
    /\ assets # <<>>
    \* an is_valid that raises in the comprehension ends the run before the insert
    /\ RaiseAt(assets) = 0
    /\ CanInsert
    /\ db_snapshots' = save_snapshot(db_snapshots, user, metrics.total_value_try,
                                     assets_summary(assets), now)
    /\ snapshots' = load_snapshots(db_snapshots', user, LoadLimit)
    /\ now' = now + 1
    /\ success' = "none"
    /\ UNCHANGED <<config, pvars, user, access_token, loaded, db_portfolios, cache>>

\* render_settings_page: the button that deletes all snapshots
DeleteAllSnapshots ==
    /\ LoggedIn
    /\ db_snapshots' = delete_all_snapshots(db_snapshots, user)
    /\ snapshots' = <<>>
    /\ success' = "none"
    /\ UNCHANGED <<config, pvars, user, access_token, loaded, db_portfolios, cache,
                   now>>

\* render_asset_management_page: a quantity input writes into the config in
\* place; float(fund['shares']) raises on a record without a quantity
EditQuantity ==
    /\ LoggedIn
    /\ loaded
    /\ \E v \in {R(i) : i \in 0..MaxEdit} :
        \/ \E i \in 1..Len(config.tefas_funds) :
                /\ ~IsNull(config.tefas_funds[i].shares)
                /\ config' = [config EXCEPT !.tefas_funds[i].shares = v]
        \/ \E i \in 1..Len(config.us_stocks) :
                /\ ~IsNull(config.us_stocks[i].shares)
                /\ config' = [config EXCEPT !.us_stocks[i].shares = v]
        \/ \E i \in 1..Len(config.crypto) :
                /\ ~IsNull(config.crypto[i].amount)
                /\ config' = [config EXCEPT !.crypto[i].amount = v]
    /\ success' = "none"
    /\ UNCHANGED <<pvars, svars, dvars, now>>

\* render_asset_management_page: the button "Tümünü Kaydet"
SaveAll ==
    /\ LoggedIn
    /\ loaded
    /\ db_portfolios' = [db_portfolios EXCEPT ![user] = config]
    /\ SetPortfolio(NewPortfolio)
    /\ history' = NoHistory
    /\ success' = "none"
    /\ UNCHANGED <<config, svars, db_snapshots, cache, now>>

\* crypto['symbol'].split('/')[0], for the symbols of the model
ShortSymbol(symbol) ==
    IF symbol = "BTC/USDT" THEN "BTC"
    ELSE IF symbol = "ETH/USDT" THEN "ETH"
    ELSE symbol

\* render_asset_table in edit mode: new_shares[row['Kod']] = new_val, one
\* number input per row of get_summary_dataframe, which shows the row's Adet
\* until the user types one of the values
TableInputs(as, values) ==
    {ns \in [{as[i].code : i \in 1..Len(as)} -> values \cup {as[i].shares : i \in 1..Len(as)}] :
        \A i \in 1..Len(as) : ns[as[i].code] \in values \cup {as[i].shares}}

\* changes_made: some input differs from its row's Adet
ChangesMade(as, ns) == \E i \in 1..Len(as) : ns[as[i].code] # as[i].shares

\* the three loops of the button "Kaydet": a fund is looked up by its code,
\* a stock by its ticker, a coin by the part of its symbol before the '/'
SavedShares(f, ns) ==
    IF f.code \in DOMAIN ns THEN [f EXCEPT !.shares = ns[f.code]] ELSE f

SavedStock(k, ns) ==
    IF k.ticker \in DOMAIN ns THEN [k EXCEPT !.shares = ns[k.ticker]] ELSE k

SavedAmount(c, ns) ==
    IF ShortSymbol(c.symbol) \in DOMAIN ns
    THEN [c EXCEPT !.amount = ns[ShortSymbol(c.symbol)]] ELSE c

SavedConfig(cfg, ns) ==
    [tefas_funds |-> [i \in 1..Len(cfg.tefas_funds) |-> SavedShares(cfg.tefas_funds[i], ns)],
     us_stocks |-> [i \in 1..Len(cfg.us_stocks) |-> SavedStock(cfg.us_stocks[i], ns)],
     crypto |-> [i \in 1..Len(cfg.crypto) |-> SavedAmount(cfg.crypto[i], ns)]]

\* render_asset_table: the button "Kaydet", enabled when changes were made:
\* the inputs are written into the config, the config is saved, and a new
\* Portfolio of it is refreshed; float(row['Adet']) raises on a row without
\* a quantity
SaveTable(Quotes, Rates, Hists) ==
    /\ LoggedIn
    /\ loaded
    /\ assets # <<>>
    /\ \A i \in 1..Len(assets) : ~IsNull(assets[i].shares)
    /\ \E ns \in TableInputs(assets, {R(i) : i \in 0..MaxEdit}) :
        /\ ChangesMade(assets, ns)
        /\ config' = SavedConfig(config, ns)
    /\ db_portfolios' = [db_portfolios EXCEPT ![user] = config']
    /\ \E pd \in PriceDataChoices(config', Quotes, Rates), hist \in Hists :
        LET refreshed == refresh_prices(NewPortfolio, config', pd, hist, now) IN
            /\ SetPortfolio(refreshed.p)
            /\ success' = IF refreshed.ok THEN "ok" ELSE "failed"
            /\ history' = IF refreshed.ok THEN hist ELSE NoHistory
    /\ UNCHANGED <<svars, db_snapshots, cache, now>>

\* time passes: the next handler runs on the next day
Tick ==
    /\ Day(now) - Day(StartTick) < MaxDays
    /\ now' = (Day(now) + 1) * TicksPerDay
    /\ success' = "none"
    /\ UNCHANGED <<config, pvars, svars, dvars>>


Init ==
    /\ config = EmptyConfig
    /\ price_data = NewPortfolio.price_data
    /\ usd_try_rate = NewPortfolio.usd_try_rate
    /\ assets = NewPortfolio.assets
    /\ metrics = NewPortfolio.metrics
    /\ last_update = NewPortfolio.last_update
    /\ history = NoHistory
    /\ success = "none"
    /\ user = NoUser
    /\ access_token = NoToken
    /\ loaded = FALSE
    /\ snapshots = <<>>
    /\ db_snapshots = <<>>
    /\ db_portfolios \in {f \in [Users -> SpecConfigs] : f["u1"] # f["u2"]}
    /\ cache = EmptyCache
    /\ now = StartTick

Next ==
    \/ Login
    \/ Logout
    \/ ClickLoad
    \/ ClickRefresh
    \/ ManualSnapshot
    \/ DeleteAllSnapshots
    \/ Tick

Spec == Init /\ [][Next]_vars

(***************************************************************************)
(* SpecVal: the first refresh of a fresh Portfolio, over a range of        *)
(* quantities, quotes and rates (the valuation pass as a function of its   *)
(* inputs)                                                                 *)
(***************************************************************************)
Quantities == {R(i) : i \in 0..MaxShares}
Prices == {NULL} \cup {R(i) : i \in 1..MaxPrice}

\* one fund, one stock and one coin, with any of the quantities
GeneralConfigs ==
    {[tefas_funds |-> <<Fund("TCD", a, R(50))>>,
      us_stocks |-> <<Stock("AAPL", b, R(30))>>,
      crypto |-> <<Coin("BTC/USDT", c, R(20))>>] : a, b, c \in Quantities}

\* two funds worth 700 and 300 at the prices 11 and 19
WeightedConfig ==
    [tefas_funds |-> <<Fund("A", Frac(700, 11), R(70)), Fund("B", Frac(300, 19), R(30))>>,
     us_stocks |-> <<>>, crypto |-> <<>>]

\* two shares of one stock
CurrencyConfig ==
    [tefas_funds |-> <<>>, us_stocks |-> <<Stock("X", R(2), R(100))>>, crypto |-> <<>>]

ValConfigs == GeneralConfigs \cup {WeightedConfig, CurrencyConfig}

\* A rose by 10% to 11, B fell by 5% to 19, X stands at 100 with no prior
\* price; every other code has any current and any prior price
ValQuotes(code) ==
    IF code = "A" THEN {Quote(R(11), R(10))}
    ELSE IF code = "B" THEN {Quote(R(19), R(20))}
    ELSE IF code = "X" THEN {Quote(R(100), NULL)}
    ELSE {Quote(c, p) : c \in Prices, p \in Prices}

ValRates == {R(1), R(35)}
\* the provider's last close is taken as it comes: the stock of CurrencyConfig
\* is also valued at a rate of zero and at a negative rate
ValRatesOf(cfg) ==
    IF cfg = CurrencyConfig THEN ValRates \cup {Zero, R(-35)} ELSE ValRates

\* a session of u1 on the start day, whose config is cfg
SessionInit(cfg) ==
    /\ config = cfg
    /\ price_data = NewPortfolio.price_data
    /\ usd_try_rate = NewPortfolio.usd_try_rate
    /\ assets = NewPortfolio.assets
    /\ metrics = NewPortfolio.metrics
    /\ last_update = NewPortfolio.last_update
    /\ history = NoHistory
    /\ success = "none"
    /\ user = "u1"
    /\ access_token = "token"
    /\ loaded = TRUE
    /\ snapshots = <<>>
    /\ db_snapshots = <<>>
    /\ db_portfolios = [u \in Users |-> IF u = "u1" THEN cfg ELSE EmptyConfig]
    /\ cache = EmptyCache
    /\ now = StartTick

InitVal == \E cfg \in ValConfigs : SessionInit(cfg)

\* the button "Güncelle", pressed once on the fresh Portfolio
FirstRefresh ==
    /\ LoggedIn
    /\ last_update = NoTime
    /\ success = "none"
    /\ RefreshHandler([c \in AllCodes(config) |-> ValQuotes(c)], ValRatesOf(config),
                      SameHistory(config, SpecHists))

NextVal == FirstRefresh

SpecVal == InitVal /\ [][NextVal]_vars

(***************************************************************************)
(* SpecPortfolio: one Portfolio object through edits of its config and     *)
(* repeated refreshes                                                      *)
(***************************************************************************)
\* a fund record without its code, next to a well-formed stock
MalformedConfig ==
    [tefas_funds |-> <<Fund(NoKey, R(1), R(50))>>,
     us_stocks |-> <<Stock("AAPL", R(1), R(50))>>, crypto |-> <<>>]

\* a fund and a stock; the fund's record may come without a quantity or
\* without its code
PortfolioConfigs ==
    {[tefas_funds |-> <<Fund("TCD", a, R(50))>>,
      us_stocks |-> <<Stock("AAPL", R(1), R(50))>>,
      crypto |-> <<>>] : a \in {NULL, R(1)}}
    \cup {MalformedConfig}

\* the fund is quoted with or without a prior price, the stock is quoted or not
PortfolioQuotes(code) ==
    IF code = "TCD" THEN {Quote(R(1), NULL), Quote(R(2), R(1))}
    ELSE {Quote(NULL, NULL), Quote(R(1), NULL)}
PortfolioRates == {R(35)}
\* no history, or a full history of alternating closes
PortfolioHists == {<<>>, Zig(HistLen)}

InitPortfolio == \E cfg \in PortfolioConfigs : SessionInit(cfg)

PortfolioRefresh ==
    /\ LoggedIn
    /\ RefreshHandler([c \in AllCodes(config) |-> PortfolioQuotes(c)],
                      PortfolioRates, SameHistory(config, PortfolioHists))

NextPortfolio ==
    \/ PortfolioRefresh
    \/ EditQuantity
    \/ SaveAll

SpecPortfolio == InitPortfolio /\ [][NextPortfolio]_vars

(***************************************************************************)
(* SpecRisk: the first refresh of a fresh Portfolio of three holdings,     *)
(* over the quotes and the histories the providers may return for each     *)
(* (the risk pass as a function of its inputs)                             *)
(***************************************************************************)
RiskConfig ==
    [tefas_funds |-> <<Fund("TCD", R(2), R(40))>>,
     us_stocks |-> <<Stock("AAPL", R(1), R(30))>>,
     crypto |-> <<Coin("BTC/USDT", R(1), R(30))>>]

\* a holding is quoted, quoted without a price, or has no entry at all
RiskQuotes(code) == {Quote(R(1), NULL), Quote(NULL, NULL), NoQuote}
RiskRates == {R(1)}
\* no rows, one row too few, or a full history of one of several shapes
RiskHists(code) ==
    IF code = "TCD"
    THEN {<<>>, Zig(HistLen - 1), Zig(HistLen), Flat(HistLen), WalkA(HistLen)}
    ELSE IF code = "AAPL"
    THEN {<<>>, Zig(HistLen), Zag(HistLen), Step(HistLen), WalkB(HistLen)}
    ELSE {<<>>, Zig(HistLen), Zag(HistLen), Step(HistLen), Gapped(HistLen)}

InitRisk == SessionInit(RiskConfig)

\* the button "Güncelle", pressed once on the fresh Portfolio
RiskRefresh ==
    /\ LoggedIn
    /\ last_update = NoTime
    /\ success = "none"
    /\ RefreshHandler([c \in AllCodes(config) |-> RiskQuotes(c)], RiskRates,
                      HistoryChoices(config, [c \in AllCodes(config) |-> RiskHists(c)]))

NextRisk == RiskRefresh

SpecRisk == InitRisk /\ [][NextRisk]_vars

(***************************************************************************)
(* Properties of the valuation pass (checked under SpecVal)                *)
(***************************************************************************)
\* the last handler was a refresh and refresh_prices returned True
Refreshed == success = "ok"

\* a holding's validity, stated on its price and quantity
HoldingValid(a) == RPos(a.current_price) /\ RPos(a.shares)
HasPrior(a) == RPos(a.prev_week_price)
\* the rate a holding's currency converts with
FxOf(a) == IF a.currency = "TRY" THEN R(1) ELSE usd_try_rate
\* quantity x price (x rate)
ExpectedValue(a) == RMul(RMul(a.shares, a.current_price), FxOf(a))
ExpectedPriorValue(a) == RMul(RMul(a.shares, a.prev_week_price), FxOf(a))
ExpectedReturn(a) ==
    RDiv(RMul(R(100), RSub(a.current_price, a.prev_week_price)), a.prev_week_price)

\* the sum of f[i] over the valid assets i
SumOverValid(f) ==
    RSum([i \in 1..Len(assets) |-> IF HoldingValid(assets[i]) THEN f[i] ELSE Zero])

ActualWeights == [i \in 1..Len(assets) |-> assets[i].actual_weight]
ValuesTry == [i \in 1..Len(assets) |-> assets[i].value_try]
ExpectedValues == [i \in 1..Len(assets) |-> ExpectedValue(assets[i])]
\* the prior values, 0 for a holding without a prior price
ExpectedPriorValues ==
    [i \in 1..Len(assets) |->
        IF HasPrior(assets[i]) THEN ExpectedPriorValue(assets[i]) ELSE Zero]
WeightedReturns ==
    [i \in 1..Len(assets) |->
        RMul(RDiv(assets[i].value_try, metrics.total_value_try), assets[i].weekly_return)]
Assets == {assets[i] : i \in 1..Len(assets)}

\* C1: after a successful refresh, when the total is > 0 the actual weights
\* of the valid assets sum to 100 and their value_try sums to
\* metrics.total_value_try; when the total is 0 every actual weight is 0.
C1_WeightsSumTo100 ==
    Refreshed =>
        /\ RPos(metrics.total_value_try) =>
            /\ SumOverValid(ActualWeights) = R(100)
            /\ SumOverValid(ValuesTry) = metrics.total_value_try
        /\ metrics.total_value_try = Zero =>
            \A a \in Assets : a.actual_weight = Zero

\* C1 witness: a refreshed portfolio with a positive total that holds a valid
\* fund, a valid dollar asset converted at a rate other than 1, and an
\* invalid asset
C1_Witness ==
    /\ Refreshed
    /\ RPos(metrics.total_value_try)
    /\ usd_try_rate = R(35)
    /\ \E a \in Assets : HoldingValid(a) /\ a.currency = "TRY"
    /\ \E a \in Assets : HoldingValid(a) /\ a.currency = "USD"
    /\ \E a \in Assets : ~HoldingValid(a)

\* C2: a holding is treated as valid exactly when its price and its quantity
\* are > 0; an invalid holding has no value and no weight and is not in the
\* total, yet every holding of the config is an asset of the portfolio and a
\* row of the summary table.
C2_InvalidExcludedButKept ==
    Refreshed =>
        /\ \A a \in Assets : (a.recommendation # <<"NO_DATA">>) <=> HoldingValid(a)
        /\ \A a \in Assets :
                ~HoldingValid(a) => a.value_try = Zero /\ a.actual_weight = Zero
        /\ metrics.total_value_try = SumOverValid(ExpectedValues)
        /\ Len(assets) = Len(config.tefas_funds) + Len(config.us_stocks) + Len(config.crypto)
        /\ {a.code : a \in Assets} = AllCodes(config)
        /\ LET df == get_summary_dataframe(assets)
           IN  /\ Len(df) = Len(assets)
               /\ \A i \in 1..Len(df) :
                    /\ df[i].Kod = assets[i].code
                    /\ df[i].Deger = assets[i].value_try
                    /\ df[i].Agirlik = assets[i].actual_weight

\* C2 witness: a refreshed portfolio with a valid asset, an asset that is
\* invalid for its quantity alone and one that is invalid for its price alone
C2_Witness ==
    /\ Refreshed
    /\ RPos(metrics.total_value_try)
    /\ \E a \in Assets : HoldingValid(a)
    /\ \E a \in Assets : RPos(a.current_price) /\ a.shares = Zero
    /\ \E a \in Assets : a.current_price = Zero /\ RPos(a.shares)
    /\ Len(get_summary_dataframe(assets)) = 3

C7_ValueInBase ==
    Refreshed =>
        /\ usd_try_rate = Get(price_data.usd_try, DefaultUsdTry)
        /\ \A a \in Assets :
            /\ a.currency \in {"TRY", "USD", "USDT"}
            /\ a.currency = "TRY" => a.value_try = RMul(a.shares, a.current_price)
            /\ a.currency \in {"USD", "USDT"} =>
                a.value_try = RMul(RMul(a.shares, a.current_price), usd_try_rate)
        /\ (config = CurrencyConfig /\ usd_try_rate = R(35)) =>
                assets[1].value_try = R(7000)

\* C7 witness: the two shares at 100 dollars, refreshed at the rate 35
C7_Witness ==
    /\ Refreshed
    /\ config = CurrencyConfig
    /\ usd_try_rate = R(35)
    /\ assets[1].currency = "USD"
    /\ assets[1].shares = R(2) /\ assets[1].current_price = R(100)
    /\ assets[1].value_try = R(7000)

\* C8 as stated: every holding's weekly return follows from its two prices.
C8_EveryHoldingReturn ==
    Refreshed =>
        \A a \in Assets :
            a.weekly_return = IF HasPrior(a) THEN ExpectedReturn(a) ELSE Zero

\* C8: a valid holding's weekly return is 100 x (price - prior) / prior when
\* its prior price is > 0 and 0 otherwise; an invalid holding's weekly return
\* is 0 whatever its prices.
C8_ValidHoldingReturn ==
    Refreshed =>
        \A a \in Assets :
            a.weekly_return =
                IF HoldingValid(a) /\ HasPrior(a) THEN ExpectedReturn(a) ELSE Zero

\* C8 witness: a valid holding whose price doubled and a holding without
\* quantity whose price doubled
C8_Witness ==
    /\ Refreshed
    /\ \E a \in Assets :
        /\ HoldingValid(a) /\ a.prev_week_price = R(1) /\ a.current_price = R(2)
        /\ a.weekly_return = R(100)
    /\ \E a \in Assets :
        /\ a.shares = Zero /\ a.prev_week_price = R(1) /\ a.current_price = R(2)
        /\ a.weekly_return = Zero

\* C9 as stated: every holding's deviation is its weight less its target.
C9_EveryHoldingDeviation ==
    Refreshed =>
        \A a \in Assets : a.weight_deviation = RSub(a.actual_weight, a.target_weight)

\* C9: when the total is > 0 a valid holding's deviation is its weight less
\* its target; an invalid holding, and every holding when the total is 0,
\* has weight 0 and deviation 0.
C9_ValidHoldingDeviation ==
    Refreshed =>
        \A a \in Assets :
            IF HoldingValid(a) /\ RPos(metrics.total_value_try)
            THEN /\ a.actual_weight =
                        RDiv(RMul(R(100), ExpectedValue(a)), metrics.total_value_try)
                 /\ a.weight_deviation = RSub(a.actual_weight, a.target_weight)
            ELSE a.actual_weight = Zero /\ a.weight_deviation = Zero

\* C9 witness: a valid holding above its target beside an invalid holding
\* with a target of 50
C9_Witness ==
    /\ Refreshed
    /\ \E a \in Assets :
        /\ HoldingValid(a) /\ RPos(a.weight_deviation)
        /\ a.weight_deviation = RSub(a.actual_weight, a.target_weight)
    /\ \E a \in Assets :
        /\ ~HoldingValid(a) /\ a.target_weight = R(50)
        /\ a.actual_weight = Zero /\ a.weight_deviation = Zero

(***************************************************************************)
(* Properties of the snapshot store (checked under Spec)                   *)
(***************************************************************************)
\* C4 as stated: the stored snapshots of a user are strictly increasing in
\* timestamp and no two of them fall in the same calendar week.
C4_OneSnapshotPerWeek ==
    \A u \in Users :
        LET rows == RowsOf(db_snapshots, u)
        IN  \A i, j \in 1..Len(rows) :
                i < j =>
                    /\ rows[i].created_at < rows[j].created_at
                    /\ CalendarWeek(rows[i].created_at) # CalendarWeek(rows[j].created_at)

\* the table new extends the table old by appended rows only
Extends(new, old) ==
    /\ Len(new) >= Len(old)
    /\ SubSeq(new, 1, Len(old)) = old

\* C10 as stated: the stored snapshots only grow; no step deletes or rewrites
\* a stored row.
C10_OnlyGrows == [][Extends(db_snapshots', db_snapshots)]_vars

\* C10: every step either only appends rows to the table, or removes all the
\* rows of the logged-in user at once and leaves every other user's rows as
\* they are; no step rewrites a row.
C10_AppendOrDeleteOwn ==
    [][\/ Extends(db_snapshots', db_snapshots)
       \/ /\ LoggedIn
          /\ db_snapshots' = SelectSeq(db_snapshots, LAMBDA r : r.user_id # user)]_vars

\* C10 witness: the second row ever inserted is stored, the first is not, and
\* the logged-in user has no rows: that user deleted their snapshots and the
\* other user's row stayed
C10_Witness ==
    /\ LoggedIn
    /\ RowsOf(db_snapshots, user) = <<>>
    /\ \E i \in 1..Len(db_snapshots) : db_snapshots[i].created_at = StartTick + 1
    /\ \A i \in 1..Len(db_snapshots) : db_snapshots[i].created_at # StartTick

(***************************************************************************)
(* Properties of a Portfolio across refreshes (checked under SpecPortfolio)*)
(***************************************************************************)
\* C5 as stated: after a successful refresh the metrics are the ones a
\* Portfolio without any past computes from this refresh's config, quotes
\* and history.
C5_MetricsFromThisRefresh ==
    Refreshed =>
        metrics = calculate_metrics(NewMetrics, build_assets(config, price_data),
                                    usd_try_rate, history).metrics

\* C6 as stated: a refresh that returns False leaves price_data,
\* usd_try_rate, assets, metrics and last_update as they were.
C6_FailedRefreshChangesNothing ==
    [][success' = "failed" =>
            /\ price_data' = price_data
            /\ usd_try_rate' = usd_try_rate
            /\ assets' = assets
            /\ metrics' = metrics
            /\ last_update' = last_update]_vars

(***************************************************************************)
(* Properties of the risk pass (checked under SpecRisk unless said         *)
(* otherwise)                                                              *)
(***************************************************************************)
\* the valid holdings for which the provider returned at least 6 closes
WithHistory ==
    {i \in 1..Len(assets) :
        HoldingValid(assets[i]) /\ Len(HistOf(history, assets[i].code)) >= 6}

ReturnDates(h) == {h[k].Date : k \in 2..Len(h)}

\* the return of history h on day d: the close of d over the close before it
ReturnOn(h, d) ==
    RSub(RDiv(h[CHOOSE k \in 2..Len(h) : h[k].Date = d].Close,
              h[(CHOOSE k \in 2..Len(h) : h[k].Date = d) - 1].Close), R(1))

\* the days for which every item's history has a return
CommonDates(items) ==
    {d \in ReturnDates(history[items[1].code]) :
        \A i \in 1..Len(items) : d \in ReturnDates(history[items[i].code])}

RECURSIVE SortedDates(_)
SortedDates(S) == IF S = {} THEN <<>> ELSE <<Min(S)>> \o SortedDates(S \ {Min(S)})

\* the items with their returns joined on the day: row k of every item is
\* its return on the k-th common day
JoinedOn(items, dates) ==
    [i \in 1..Len(items) |->
        [items[i] EXCEPT !.returns =
            [k \in 1..Len(dates) |-> ReturnOn(history[items[i].code], dates[k])]]]

JoinedOnDate(items) ==
    IF items = <<>> THEN <<>> ELSE JoinedOn(items, SortedDates(CommonDates(items)))

\* C12 as stated: the return series are joined on the date, so the
\* volatility a first refresh computes is the one of the portfolio returns
\* of the days for which every instrument has a return (and is not computed
\* when fewer than 5 such days exist).
C12_ReturnsJoinedOnDate ==
    Refreshed =>
        metrics.volatility_monthly =
            RiskOf(NewMetrics, JoinedOnDate(AllReturns(assets, history))).volatility_monthly

\* the rows every instrument of the risk pass has a return for
CommonRows ==
    Min({Len(HistOf(history, assets[i].code)) - 1 : i \in WithHistory})

\* the daily returns of holding i the risk pass used
ReturnsUsed(i) == SubSeq(PctChange(HistOf(history, assets[i].code)), 1, CommonRows)

\* the correlation of the returns of the holdings i and j (sign and square)
PairCorr(i, j) == Corr(ReturnsUsed(i), ReturnsUsed(j))

\* the correlation warnings that name the codes c and d
PairWarnings(c, d) ==
    {k \in 1..Len(metrics.warnings) :
        /\ metrics.warnings[k].kind = "HIGH_CORRELATION"
        /\ metrics.warnings[k].codes \in {<<c, d>>, <<d, c>>}}

AboveThreshold(c) == ~IsNaN(c) /\ RGt(RAbs(c), Frac(49, 100))

\* C13: after a successful refresh, each unordered pair of instruments of the
\* risk pass whose correlation is above 0.7 in absolute value has exactly
\* one warning naming both codes, and every other pair has none.
C13_OneWarningPerHighPair ==
    Refreshed =>
        \A i, j \in WithHistory :
            i < j =>
                Cardinality(PairWarnings(assets[i].code, assets[j].code)) =
                    IF AboveThreshold(PairCorr(i, j)) THEN 1 ELSE 0

\* C13 witness: three instruments; one pair is correlated above the
\* threshold (warned exactly once) and one pair exactly at it (no warning)
C13_Witness ==
    /\ Refreshed
    /\ Cardinality(WithHistory) = 3
    /\ \E i, j \in WithHistory :
            /\ i < j /\ AboveThreshold(PairCorr(i, j))
            /\ Cardinality(PairWarnings(assets[i].code, assets[j].code)) = 1
    /\ \E i, j \in WithHistory :
            /\ i < j /\ PairCorr(i, j) = Frac(49, 100)
            /\ PairWarnings(assets[i].code, assets[j].code) = {}

(***************************************************************************)
(* Properties of the risk pass across refreshes (checked under             *)
(* SpecPortfolio)                                                          *)
(***************************************************************************)
\* C14 as stated: after a successful refresh whose risk data is insufficient
\* (no instrument with 6 closes) or whose portfolio returns have a standard
\* deviation of 0, metrics.sharpe_ratio is null.
C14_SharpeNullWithoutDeviation ==
    (/\ Refreshed
     /\ \/ WithHistory = {}
        \/ metrics.volatility_monthly = Zero) => metrics.sharpe_ratio = NULL

(***************************************************************************)
(* Properties of a refresh's warnings and failures                         *)
(***************************************************************************)
\* C15 as stated (checked under SpecVal): after a successful refresh whose
\* portfolio weekly return is below weekly_loss_threshold, metrics.warnings
\* holds a warning.
C15_WeeklyLossWarned ==
    (Refreshed /\ RLt(metrics.weekly_return_pct, weekly_loss_threshold)) =>
        metrics.warnings # <<>>

\* some holding record of the config comes without its code
MissingCode(cfg) == NoKey \in AllCodes(cfg)

\* C16 (checked under SpecPortfolio): a refresh whose config holds a record
\* without its code returns failure and leaves the Portfolio as it was: no
\* holding is valued and no metric computed.
C16_MalformedConfigRejected ==
    [][(MissingCode(config') /\ success' # "none") =>
            /\ success' = "failed"
            /\ price_data' = price_data
            /\ usd_try_rate' = usd_try_rate
            /\ assets' = assets
            /\ metrics' = metrics
            /\ last_update' = last_update]_vars

\* C16 witness: a refresh of the config with the code-less fund record has
\* failed, and the Portfolio has no asset, the well-formed stock included
C16_Witness ==
    /\ MissingCode(config)
    /\ success = "failed"
    /\ assets = <<>>
    /\ metrics = NewMetrics
    /\ last_update = NoTime
    /\ \E i \in 1..Len(config.us_stocks) : config.us_stocks[i].ticker # NoKey

\* C17 as stated (checked under SpecVal): no refresh given a rate that is
\* not positive succeeds.
C17_NonPositiveRateFails == Refreshed => RPos(usd_try_rate)

\* the provider table a holding's quote is looked up in
TableOf(a) ==
    IF a.asset_type = "TEFAS" THEN price_data.tefas
    ELSE IF a.asset_type = "US_STOCK" THEN price_data.us_stocks
    ELSE price_data.crypto

NotQuoted(a) == a.code \notin DOMAIN TableOf(a)
QuotedWithoutPrice(a) ==
    a.code \in DOMAIN TableOf(a) /\ TableOf(a)[a.code].current_price = NULL

\* C18 (checked under SpecRisk): after a successful refresh, a holding with
\* no quote in the price data, or with a quote whose current price is null,
\* has the current price 0 and is invalid: it has no value and no weight and
\* is marked as without data.
C18_UnquotedHoldingInvalid ==
    Refreshed =>
        \A a \in Assets :
            (NotQuoted(a) \/ QuotedWithoutPrice(a)) =>
                /\ a.current_price = Zero
                /\ ~HoldingValid(a)
                /\ a.value_try = Zero
                /\ a.actual_weight = Zero
                /\ a.recommendation = <<"NO_DATA">>

\* C18 witness: a refreshed portfolio with a holding that has no quote, a
\* holding quoted without a price and a holding quoted at a price
C18_Witness ==
    /\ Refreshed
    /\ \E a \in Assets : NotQuoted(a) /\ a.current_price = Zero
    /\ \E a \in Assets : QuotedWithoutPrice(a) /\ a.current_price = Zero
    /\ \E a \in Assets : HoldingValid(a) /\ RPos(a.value_try)

\* every holding record of the config has its code and its quantity
WellFormed(cfg) ==
    /\ ~MissingCode(cfg)
    /\ \A i \in 1..Len(cfg.tefas_funds) : ~IsNull(cfg.tefas_funds[i].shares)
    /\ \A i \in 1..Len(cfg.us_stocks) : ~IsNull(cfg.us_stocks[i].shares)
    /\ \A i \in 1..Len(cfg.crypto) : ~IsNull(cfg.crypto[i].amount)

\* C19 as stated (checked under SpecPortfolio): a refresh with a well-formed
\* config succeeds whatever quotes and histories are missing, and when no
\* instrument has a usable history the volatility, the Sharpe ratio and the
\* diversification score are null after it.
C19_GapsNeverFailAndGiveNull ==
    (WellFormed(config) /\ success # "none") =>
        /\ success = "ok"
        /\ WithHistory = {} =>
            /\ metrics.volatility_monthly = NULL
            /\ metrics.sharpe_ratio = NULL
            /\ metrics.diversification_score = NoScore

\* the first half of C19 alone: a refresh with a well-formed config succeeds
C19_GapsNeverFail == (WellFormed(config) /\ success # "none") => success = "ok"

(***************************************************************************)
(* Properties of the drawdown chart (checked under Spec)                   *)
(***************************************************************************)
\* C20 as stated: whenever the drawdown is shown, it is a number <= 0 at
\* each index, and exactly 0 at each index where the value equals the
\* running maximum.
C20_DrawdownNeverPositive ==
    DrawdownShown =>
        \A i \in 1..Len(snapshots) :
            /\ Drawdowns(SnapshotValues(snapshots))[i] \notin {NaN, NegInf}
            /\ RLe(Drawdowns(SnapshotValues(snapshots))[i], Zero)
            /\ SnapshotValues(snapshots)[i] = RunningMax(SnapshotValues(snapshots))[i]
                  => Drawdowns(SnapshotValues(snapshots))[i] = Zero

(***************************************************************************)
(* Properties of the pages that read the snapshots (checked under Spec)    *)
(***************************************************************************)
\* C21: with fewer than 2 snapshots in the session the drawdown part shows
\* nothing and calculate_benchmark_returns returns every entry None, for the
\* portfolio and for each benchmark, without raising.
C21_NothingBelowTwoSnapshots ==
    Len(snapshots) < 2 =>
        /\ RiskPageDrawdowns = NoChart
        /\ \A bench \in BenchmarkChoices :
            /\ ~calculate_benchmark_returns(snapshots, bench).raised
            /\ calculate_benchmark_returns(snapshots, bench).portfolio = NoSeries
            /\ \A k \in BenchmarkKeys :
                calculate_benchmark_returns(snapshots, bench).benchmarks[k] = NoSeries

\* C21 witness: a loaded, refreshed portfolio with exactly one snapshot
C21_Witness ==
    /\ LoggedIn /\ loaded /\ assets # <<>>
    /\ Len(snapshots) = 1

(***************************************************************************)
(* Two refreshes with the same inputs (checked under SpecPortfolio)        *)
(***************************************************************************)
\* the quotes, rates and histories a refresh of the session's Portfolio may fetch
PortfolioPriceData ==
    PriceDataChoices(config, [c \in AllCodes(config) |-> PortfolioQuotes(c)],
                     PortfolioRates)

\* two results of refresh_prices agree on what was returned, the assets and
\* the metrics
SameOutcome(r1, r2) ==
    /\ r1.ok = r2.ok
    /\ r1.p.assets = r2.p.assets
    /\ r1.p.metrics = r2.p.metrics

\* the two results agree on what was returned and on the assets
SameAssets(r1, r2) ==
    /\ r1.ok = r2.ok
    /\ r1.p.assets = r2.p.assets

\* C22 as stated: whatever a Portfolio has been through, its refresh with
\* some config, quotes, FX rate and history gives the assets and the metrics
\* that the refresh of a newly constructed Portfolio gives with the same
\* config, quotes, FX rate and history.
C22_SameInputsSameResult ==
    (loaded /\ HasAllCodes(config)) =>
        \A pd \in PortfolioPriceData, hist \in SameHistory(config, PortfolioHists) :
            SameOutcome(refresh_prices(PortfolioState, config, pd, hist, now),
                        refresh_prices(NewPortfolio, config, pd, hist, now))

\* what does hold: the two refreshes agree on the assets
C22_SameInputsSameAssets ==
    (loaded /\ HasAllCodes(config)) =>
        \A pd \in PortfolioPriceData, hist \in SameHistory(config, PortfolioHists) :
            SameAssets(refresh_prices(PortfolioState, config, pd, hist, now),
                       refresh_prices(NewPortfolio, config, pd, hist, now))

YearBefore(t) == t - WeeksPerYear * 7 * TicksPerDay

\* the automatic snapshot of the Friday one year before this week's Friday
YearOldRow ==
    SnapshotRow("u1", R(1),
                [c \in {"TCD"} |-> [value_try |-> R(1), shares |-> R(1), price |-> R(1)]],
                YearBefore(StartTick + TicksPerDay))

\* what the table holds when the session starts
WeekRows == {<<>>, <<YearOldRow>>}

\* the session of SessionInit, with the table and the loaded snapshots rows
SessionWith(cfg, rows) ==
    /\ config = cfg
    /\ price_data = NewPortfolio.price_data
    /\ usd_try_rate = NewPortfolio.usd_try_rate
    /\ assets = NewPortfolio.assets
    /\ metrics = NewPortfolio.metrics
    /\ last_update = NewPortfolio.last_update
    /\ history = NoHistory
    /\ success = "none"
    /\ user = "u1"
    /\ access_token = "token"
    /\ loaded = TRUE
    /\ snapshots = load_snapshots(rows, "u1", LoadLimit)
    /\ db_snapshots = rows
    /\ db_portfolios = [u \in Users |-> IF u = "u1" THEN cfg ELSE EmptyConfig]
    /\ cache = EmptyCache
    /\ now = StartTick

\* the fund TCD entered twice on the asset management page, whose form
\* appends without looking for the code
DuplicateConfig ==
    [tefas_funds |-> <<Fund("TCD", R(1), R(50)), Fund("TCD", R(1), R(50))>>,
     us_stocks |-> <<>>, crypto |-> <<>>]

WeekConfigs == PortfolioConfigs \cup {DuplicateConfig}

InitWeek == \E cfg \in WeekConfigs, rows \in WeekRows : SessionWith(cfg, rows)

\* the button "Güncelle": the quotes of SpecPortfolio, no history
WeekRefresh ==
    /\ LoggedIn
    /\ RefreshHandler([c \in AllCodes(config) |-> PortfolioQuotes(c)],
                      PortfolioRates, SameHistory(config, SpecHists))

NextWeek ==
    \/ WeekRefresh
    \/ ManualSnapshot
    \/ Tick

SpecWeek == InitWeek /\ [][NextWeek]_vars

(***************************************************************************)
(* The weekly snapshot (checked under SpecWeek)                            *)
(***************************************************************************)
\* the user has a stored snapshot in the calendar week (year and week) of t
StoredInWeekOf(t) ==
    \E i \in 1..Len(db_snapshots) :
        /\ db_snapshots[i].user_id = user
        /\ CalendarWeek(db_snapshots[i].created_at) = CalendarWeek(t)

\* the user has a stored snapshot with the week number of t, of any year
StoredWithWeekNumberOf(t) ==
    \E i \in 1..Len(db_snapshots) :
        /\ db_snapshots[i].user_id = user
        /\ db_snapshots[i].week_number = WeekNumber(t)

\* C24 as stated: a refresh stores one snapshot when it succeeds on a Friday
\* in a calendar week (year and week) without a stored snapshot of the user
\* and the portfolio has assets; every other refresh stores none.
C24_FridaySnapshotPerCalendarWeek ==
    [][(success' # "none" /\ CanInsert) =>
            IF /\ success' = "ok"
               /\ assets' # <<>>
               /\ Weekday(now) = Friday
               /\ ~StoredInWeekOf(now)
            THEN /\ Len(db_snapshots') = Len(db_snapshots) + 1
                 /\ Len(RowsOf(db_snapshots', user)) = Len(RowsOf(db_snapshots, user)) + 1
            ELSE db_snapshots' = db_snapshots]_vars

\* what the code does: the week is told by its number alone
C24_FridaySnapshotPerWeekNumber ==
    [][(success' # "none" /\ CanInsert) =>
            IF /\ success' = "ok"
               /\ assets' # <<>>
               /\ Weekday(now) = Friday
               /\ ~StoredWithWeekNumberOf(now)
            THEN /\ Len(db_snapshots') = Len(db_snapshots) + 1
                 /\ Len(RowsOf(db_snapshots', user)) = Len(RowsOf(db_snapshots, user)) + 1
            ELSE db_snapshots' = db_snapshots]_vars

(***************************************************************************)
(* What a saved snapshot holds (checked under SpecWeek)                    *)
(***************************************************************************)
\* the valid assets of a list, in order
ValidAssets(as) == SelectSeq(as, is_valid)

\* the sum of value_try over the entries of a breakdown
RECURSIVE BreakdownTotal(_, _)
BreakdownTotal(summary, codes) ==
    IF codes = {} THEN Zero
    ELSE LET c == CHOOSE c \in codes : TRUE
         IN  RAdd(summary[c].value_try, BreakdownTotal(summary, codes \ {c}))

\* the breakdown has one entry per valid asset, with the asset's value,
\* quantity and price
BreakdownOf(summary, as) ==
    /\ Cardinality(DOMAIN summary) = Len(ValidAssets(as))
    /\ \A i \in 1..Len(as) :
        is_valid(as[i]) =>
            /\ as[i].code \in DOMAIN summary
            /\ summary[as[i].code] = [value_try |-> as[i].value_try,
                                      shares |-> as[i].shares,
                                      price |-> as[i].current_price]

\* the row a step has just inserted
Inserted == Len(db_snapshots') = Len(db_snapshots) + 1
NewRow == db_snapshots'[Len(db_snapshots')]

\* C25 as stated: the snapshot a step saves, after a refresh or by the manual
\* button, has a breakdown with exactly the valid assets of the portfolio, and
\* its total_value_try is the sum of value_try over the breakdown.
C25_SnapshotIsItsBreakdown ==
    [][Inserted =>
            /\ BreakdownOf(NewRow.assets, assets')
            /\ NewRow.total_value_try =
                    BreakdownTotal(NewRow.assets, DOMAIN NewRow.assets)]_vars

\* what holds: the breakdown has the codes of the valid assets, and the total
\* is the sum of value_try over the valid assets
C25_SnapshotOfValidAssets ==
    [][Inserted =>
            /\ DOMAIN NewRow.assets = ValidCodes(assets')
            /\ NewRow.total_value_try = TotalValue(assets')]_vars

(***************************************************************************)
(* load_snapshots as a function of the table (checked under Spec)          *)
(***************************************************************************)
\* the limits a caller may pass
Limits == 0..(MaxRows + 1)

\* the rows of result are rows of u in the table, no row twice
RowsOfUser(result, table, u) ==
    /\ \A i \in 1..Len(result) :
        \E k \in 1..Len(table) : table[k] = result[i] /\ table[k].user_id = u
    /\ \A i, j \in 1..Len(result) : i # j => result[i] # result[j]

\* result is in ascending order of created_at
Ascending(result) ==
    \A i, j \in 1..Len(result) :
        i < j => result[i].created_at <= result[j].created_at

\* no row of u left out of result is more recent than a row of result
MostRecent(result, table, u) ==
    \A k \in 1..Len(table) :
        (table[k].user_id = u /\ ~\E i \in 1..Len(result) : result[i] = table[k]) =>
            \A i \in 1..Len(result) : table[k].created_at <= result[i].created_at

\* result is what the claim asks of load_snapshots(u, limit) on the table
LimitMostRecentAscending(result, table, u, limit) ==
    /\ Len(result) = IF Len(RowsOf(table, u)) < limit
                     THEN Len(RowsOf(table, u)) ELSE limit
    /\ RowsOfUser(result, table, u)
    /\ Ascending(result)
    /\ MostRecent(result, table, u)

\* C26: on every table the app reaches, for every user and limit,
\* load_snapshots returns the limit most recent rows of the user (all of
\* them when there are fewer), in ascending order of created_at; when the
\* store fails it returns the empty list.
C26_LoadSnapshots ==
    \A u \in Users, limit \in Limits :
        /\ LimitMostRecentAscending(load_snapshots_call(db_snapshots, u, limit, TRUE),
                                    db_snapshots, u, limit)
        /\ load_snapshots_call(db_snapshots, u, limit, FALSE) = <<>>

\* C26 witness: the session holds the two snapshots of its user as loaded
\* from the table, and a load with limit 1 returns the later one alone
C26_Witness ==
    /\ LoggedIn
    /\ Len(RowsOf(db_snapshots, user)) = 2
    /\ snapshots = load_snapshots_call(db_snapshots, user, LoadLimit, TRUE)
    /\ Len(snapshots) = 2
    /\ snapshots[1].created_at < snapshots[2].created_at
    /\ load_snapshots_call(db_snapshots, user, 1, TRUE) = <<snapshots[2]>>

(***************************************************************************)
(* SpecFetch: the refreshes of one session with the fetchers and their     *)
(* cache in play, on a Thursday and the Friday after it                    *)
(***************************************************************************)
\* the answers of yfinance and of the chart API for the rate
RateAnswers == {<<MISSING, MISSING>>, <<R(35), MISSING>>, <<MISSING, R(36)>>}

\* the answers of the first and the second provider of a quote; the fund's
\* crawler may also answer with a price of 0 and the API with no price
QuoteAnswers(code) ==
    {<<NoQuote, NoQuote>>, <<Quote(R(2), R(1)), NoQuote>>}
    \cup (IF code = "TCD" THEN {<<Quote(Zero, Zero), Quote(NULL, NULL)>>} ELSE {})
    \cup (IF code = "AAPL" THEN {<<NoQuote, Quote(R(3), R(1))>>} ELSE {})

FetchAnswers(cfg) ==
    [usd_try : RateAnswers,
     quotes : {f \in [AllCodes(cfg) -> UNION {QuoteAnswers(c) : c \in AllCodes(cfg)}] :
                    \A c \in AllCodes(cfg) : f[c] \in QuoteAnswers(c)}]

InitFetch == SessionWith(RiskConfig, <<>>)

\* the button "Güncelle": refresh_prices with fetch_all_prices run against
\* the cache, then take_snapshot_if_needed on success
FetchRefresh ==
    /\ LoggedIn
    /\ loaded
    /\ \E answers \in FetchAnswers(config) :
        LET fetched == fetch_all_prices(cache, config, answers, now)
        IN  /\ cache' = fetched.cache
            /\ AfterRefresh(refresh_prices(PortfolioState, config, fetched.results,
                                           [c \in AllCodes(config) |-> <<>>], now),
                            [c \in AllCodes(config) |-> <<>>])
    /\ UNCHANGED <<config, user, access_token, loaded, db_portfolios>>

NextFetch ==
    \/ FetchRefresh
    \/ Tick

SpecFetch == InitFetch /\ [][NextFetch]_vars

(***************************************************************************)
(* The fetchers when every provider fails (checked under SpecFetch)        *)
(***************************************************************************)
\* the cached data of a key, or the fallback when the cache has no entry
LastCachedOr(key, fallback) ==
    IF key \in DOMAIN cache THEN cache[key].data ELSE fallback

RebalanceConfigs ==
    {[tefas_funds |-> <<Fund("TCD", a, R(50))>>,
      us_stocks |-> <<Stock("AAPL", R(1), R(30))>>,
      crypto |-> <<Coin("BTC/USDT", R(1), R(20))>>] : a \in {R(1), R(3)}}

RebalanceQuotes(code) == {Quote(NULL, NULL), Quote(R(1), NULL), Quote(R(2), NULL)}
RebalanceRates == {R(1), R(2), Zero, R(-1)}

InitRebalance == \E cfg \in RebalanceConfigs : SessionInit(cfg)

\* the button "Güncelle", pressed once on the fresh Portfolio
RebalanceRefresh ==
    /\ LoggedIn
    /\ last_update = NoTime
    /\ success = "none"
    /\ RefreshHandler([c \in AllCodes(config) |-> RebalanceQuotes(c)], RebalanceRates,
                      SameHistory(config, SpecHists))

NextRebalance == RebalanceRefresh

SpecRebalance == InitRebalance /\ [][NextRebalance]_vars

(***************************************************************************)
(* The rebalancing suggestions (checked under SpecRebalance)               *)
(***************************************************************************)
\* what get_rebalancing_suggestions returns for the session's Portfolio
Suggested == get_rebalancing_suggestions(assets, metrics.total_value_try, usd_try_rate)

\* the assets a suggestion is due for
Deviating ==
    {i \in 1..Len(assets) :
        /\ is_valid(assets[i])
        /\ RGe(RAbs(assets[i].weight_deviation), weight_deviation_threshold)}

\* the asset a suggestion is about
AssetOf(s) == assets[CHOOSE i \in 1..Len(assets) : assets[i].code = s.code]

\* one suggestion per deviating asset and no other
ExactlyDeviating ==
    /\ Len(Suggested) = Cardinality(Deviating)
    /\ \A i \in Deviating : \E k \in 1..Len(Suggested) :
            /\ Suggested[k].code = assets[i].code
            /\ Suggested[k].deviation = assets[i].weight_deviation
    /\ \A k \in 1..Len(Suggested) : \E i \in Deviating : Suggested[k].code = assets[i].code

\* largest abs(deviation) first
OrderedByDeviation ==
    \A j, k \in 1..Len(Suggested) :
        j < k => RGe(RAbs(Suggested[j].deviation), RAbs(Suggested[k].deviation))

\* the asset is worth less than target_weight percent of the total
BelowTarget(a) ==
    RLt(RMul(a.value_try, R(100)), RMul(metrics.total_value_try, a.target_weight))

\* value_try is the absolute gap between the target value and the value
GapToTarget(s) ==
    s.value_try = RAbs(RSub(RDiv(RMul(metrics.total_value_try, AssetOf(s).target_weight),
                                 R(100)),
                            AssetOf(s).value_try))

\* one unit of the asset has a positive price in TRY
PricedInTry(a) ==
    IF a.currency \in {"USD", "USDT"} THEN RPos(RMul(a.current_price, usd_try_rate))
    ELSE RPos(a.current_price)

C28_WitnessUnpriced ==
    /\ Refreshed
    /\ \E k \in 1..Len(Suggested) :
        /\ BelowTarget(AssetOf(Suggested[k]))
        /\ ~PricedInTry(AssetOf(Suggested[k]))
        /\ Suggested[k].action = "SAT"

(***************************************************************************)
(* SpecTable: a session of a fund, a stock and a coin through refreshes     *)
(* and saves from the asset table                                          *)
(***************************************************************************)
TableConfig ==
    [tefas_funds |-> <<Fund("TCD", R(2), R(40))>>,
     us_stocks |-> <<Stock("AAPL", R(1), R(30))>>,
     crypto |-> <<Coin("BTC/USDT", R(1), R(30))>>]

InitTable == SessionInit(TableConfig)

\* a price, a missing price or no answer for each code
TableQuotes(code) == {Quote(R(1), NULL), Quote(NULL, NULL), NoQuote}

TableRefresh ==
    /\ LoggedIn
    /\ RefreshHandler([c \in AllCodes(config) |-> TableQuotes(c)], SpecRates,
                      SameHistory(config, SpecHists))

TableSave ==
    SaveTable([c \in AllCodes(config) |-> TableQuotes(c)], SpecRates,
              SameHistory(config, SpecHists))

NextTable ==
    \/ TableRefresh
    \/ TableSave

SpecTable == InitTable /\ [][NextTable]_vars

(***************************************************************************)
(* Saving quantities from the asset table (checked under SpecTable)        *)
(***************************************************************************)
\* the quantities that cfg holds for the holding that asset a was built from
QuantitiesOf(cfg, a) ==
    IF a.asset_type = "TEFAS"
    THEN {cfg.tefas_funds[i].shares :
            i \in {j \in 1..Len(cfg.tefas_funds) : cfg.tefas_funds[j].code = a.code}}
    ELSE IF a.asset_type = "US_STOCK"
    THEN {cfg.us_stocks[i].shares :
            i \in {j \in 1..Len(cfg.us_stocks) : cfg.us_stocks[j].ticker = a.code}}
    ELSE {cfg.crypto[i].amount :
            i \in {j \in 1..Len(cfg.crypto) : cfg.crypto[j].symbol = a.code}}

\* the table can be saved: it has rows, each with a quantity
TableShown ==
    /\ LoggedIn /\ loaded /\ assets # <<>>
    /\ \A i \in 1..Len(assets) : ~IsNull(assets[i].shares)

\* C29 as stated: whatever the user types into the table, the config that
\* "Kaydet" saves holds the typed quantity for every holding, fund, stock or
\* coin, whose input differs from the quantity shown.
C29_EditedQuantitiesSaved ==
    TableShown =>
        \A ns \in TableInputs(assets, {R(i) : i \in 0..MaxEdit}) :
            \A i \in 1..Len(assets) :
                ns[assets[i].code] # assets[i].shares =>
                    QuantitiesOf(SavedConfig(config, ns), assets[i]) = {ns[assets[i].code]}

\* what holds: the same for the funds and the stocks
C29_EditedSharesSaved ==
    TableShown =>
        \A ns \in TableInputs(assets, {R(i) : i \in 0..MaxEdit}) :
            \A i \in 1..Len(assets) :
                (assets[i].asset_type # "CRYPTO" /\ ns[assets[i].code] # assets[i].shares) =>
                    QuantitiesOf(SavedConfig(config, ns), assets[i]) = {ns[assets[i].code]}

(***************************************************************************)
(* The login gate of main and logout (checked under Spec)                  *)
(***************************************************************************)
\* C30: a step taken while no user is logged in writes neither table of the
\* cloud store; a step that begins and ends with no user logged in leaves
\* the session's config, portfolio and snapshots as they were (nothing is
\* loaded, only the login page is there to act on); and a step that logs the
\* user out leaves the session with neither a user nor an access token.
C30_LoginGate ==
    [][/\ (user = NoUser => UNCHANGED <<db_snapshots, db_portfolios>>)
       /\ ((user = NoUser /\ user' = NoUser) =>
                UNCHANGED <<config, pvars, loaded, snapshots, success>>)
       /\ ((user # NoUser /\ user' = NoUser) => access_token' = NoToken)]_vars

\* a user has logged in, stored a snapshot and logged out
C30_Witness ==
    /\ user = NoUser
    /\ access_token = NoToken
    /\ loaded
    /\ db_snapshots # <<>>

====
